---- MODULE Spec2Model ----
(***************************************************************************)
(* EdgePlug runtime: the hot-swap update engine (runtime/src/hotswap.c).   *)
(*                                                                         *)
(* Two agent slots live in flash; each slot is a payload region followed   *)
(* by a trailing metadata block.  The engine state (hotswap_state), the    *)
(* CRC table and the clock counter are statics in RAM.                     *)
(*                                                                         *)
(* Representation.                                                         *)
(*  - A uint32_t stored in flash is a pair <<hi, lo>> of 16-bit halves, so *)
(*    that the erased word 0xFFFFFFFF and CRC values are representable.    *)
(*  - A byte buffer is run-length encoded: a sequence of runs [b, n] with  *)
(*    n > 0 and no two adjacent runs of the same byte, so two buffers are  *)
(*    equal exactly when they hold the same bytes.                         *)
(*  - RAM counters are naturals; the model keeps them far below 2^31.      *)
(***************************************************************************)
EXTENDS Integers, Sequences, FiniteSets, TLC

(***************************************************************************)
(* Program constants                                                       *)
(***************************************************************************)
AGENT_SLOT_SIZE == 14336

SIZEOF_METADATA == 116

WATCHDOG_TIMEOUT == 30000

\* 0xEDGEPLUG is the token the source uses for the magic number; it stands
\* for the one 32-bit constant of the build and is compared only for equality.
MAGIC == "0xEDGEPLUG"

CRC32_POLYNOMIAL == <<1217, 7607>>

EDGEPLUG_OK == 0

EDGEPLUG_ERROR_INVALID_PARAM == -1

EDGEPLUG_ERROR_MEMORY == -2

EDGEPLUG_ERROR_HOTSWAP == -7

NULL == "NULL"

SLOT_A_PTR == "AGENT_SLOT_A_ADDR"

SLOT_B_PTR == "AGENT_SLOT_B_ADDR"

\* Largest payload a slot can hold: AGENT_SLOT_SIZE - sizeof(agent_slot_metadata_t)
MaxAgentSize == AGENT_SLOT_SIZE - SIZEOF_METADATA

(***************************************************************************)
(* 32-bit words as <<hi, lo>>                                              *)
(***************************************************************************)
U32(n) == <<n \div 65536, n % 65536>>

U32Gt(a, b) == a[1] > b[1] \/ (a[1] = b[1] /\ a[2] > b[2])

ERASED_WORD == <<65535, 65535>>

\* a ^ b for 4-bit a and b: row a + 1, column b + 1
XorNibble ==
    <<<< 0,  1,  2,  3,  4,  5,  6,  7,  8,  9, 10, 11, 12, 13, 14, 15>>,
      << 1,  0,  3,  2,  5,  4,  7,  6,  9,  8, 11, 10, 13, 12, 15, 14>>,
      << 2,  3,  0,  1,  6,  7,  4,  5, 10, 11,  8,  9, 14, 15, 12, 13>>,
      << 3,  2,  1,  0,  7,  6,  5,  4, 11, 10,  9,  8, 15, 14, 13, 12>>,
      << 4,  5,  6,  7,  0,  1,  2,  3, 12, 13, 14, 15,  8,  9, 10, 11>>,
      << 5,  4,  7,  6,  1,  0,  3,  2, 13, 12, 15, 14,  9,  8, 11, 10>>,
      << 6,  7,  4,  5,  2,  3,  0,  1, 14, 15, 12, 13, 10, 11,  8,  9>>,
      << 7,  6,  5,  4,  3,  2,  1,  0, 15, 14, 13, 12, 11, 10,  9,  8>>,
      << 8,  9, 10, 11, 12, 13, 14, 15,  0,  1,  2,  3,  4,  5,  6,  7>>,
      << 9,  8, 11, 10, 13, 12, 15, 14,  1,  0,  3,  2,  5,  4,  7,  6>>,
      <<10, 11,  8,  9, 14, 15, 12, 13,  2,  3,  0,  1,  6,  7,  4,  5>>,
      <<11, 10,  9,  8, 15, 14, 13, 12,  3,  2,  1,  0,  7,  6,  5,  4>>,
      <<12, 13, 14, 15,  8,  9, 10, 11,  4,  5,  6,  7,  0,  1,  2,  3>>,
      <<13, 12, 15, 14,  9,  8, 11, 10,  5,  4,  7,  6,  1,  0,  3,  2>>,
      <<14, 15, 12, 13, 10, 11,  8,  9,  6,  7,  4,  5,  2,  3,  0,  1>>,
      <<15, 14, 13, 12, 11, 10,  9,  8,  7,  6,  5,  4,  3,  2,  1,  0>>>>

Xor4(a, b) == XorNibble[a + 1][b + 1]

Xor8(a, b) == Xor4(a % 16, b % 16) + 16 * Xor4(a \div 16, b \div 16)

Xor16(a, b) == Xor8(a % 256, b % 256) + 256 * Xor8(a \div 256, b \div 256)

Xor32(a, b) == <<Xor16(a[1], b[1]), Xor16(a[2], b[2])>>

Shr1(w) == <<w[1] \div 2, (w[2] \div 2) + (w[1] % 2) * 32768>>

Shr8(w) == <<w[1] \div 256, (w[2] \div 256) + (w[1] % 256) * 256>>

(***************************************************************************)
(* Run-length encoded byte buffers                                         *)
(***************************************************************************)
Run(b, n) == IF n = 0 THEN <<>> ELSE <<[b |-> b, n |-> n]>>

RECURSIVE RLen(_)
RLen(r) == IF r = <<>> THEN 0 ELSE r[1].n + RLen(Tail(r))

\* concatenation that keeps the encoding canonical
RCat(x, y) ==
    IF x = <<>> THEN y
    ELSE IF y = <<>> THEN x
    ELSE IF x[Len(x)].b = y[1].b
         THEN SubSeq(x, 1, Len(x) - 1)
              \o <<[b |-> y[1].b, n |-> x[Len(x)].n + y[1].n]>>
              \o Tail(y)
         ELSE x \o y

RECURSIVE RTake(_, _)
RTake(r, n) ==
    IF n = 0 \/ r = <<>> THEN <<>>
    ELSE IF r[1].n >= n THEN <<[b |-> r[1].b, n |-> n]>>
    ELSE <<r[1]>> \o RTake(Tail(r), n - r[1].n)

RECURSIVE RDrop(_, _)
RDrop(r, n) ==
    IF n = 0 \/ r = <<>> THEN r
    ELSE IF r[1].n > n THEN <<[b |-> r[1].b, n |-> r[1].n - n]>> \o Tail(r)
    ELSE RDrop(Tail(r), n - r[1].n)

\* memcpy(dst, src, n) onto the start of a region
Memcpy(dst, src, n) == RCat(RTake(src, n), RDrop(dst, n))

\* memset(dst, b, n) over a whole region of n bytes
Memset(b, n) == Run(b, n)

RECURSIVE Bytes(_)
Bytes(s) == IF s = <<>> THEN <<>> ELSE RCat(Run(s[1], 1), Bytes(Tail(s)))

(***************************************************************************)
(* CRC-32 (init_crc32_table, calculate_crc32)                              *)
(***************************************************************************)
RECURSIVE crc32_entry(_, _)
crc32_entry(crc, j) ==
    IF j = 8 THEN crc
    ELSE IF crc[2] % 2 = 1
         THEN crc32_entry(Xor32(Shr1(crc), CRC32_POLYNOMIAL), j + 1)
         ELSE crc32_entry(Shr1(crc), j + 1)

\* the table as filled by init_crc32_table; entry i of the C array is
\* element i + 1 of the tuple
RECURSIVE crc32_fill(_, _)
crc32_fill(lo, hi) ==
    IF hi = lo + 1 THEN <<crc32_entry(<<0, lo>>, 0)>>
    ELSE LET mid == (lo + hi) \div 2
         IN crc32_fill(lo, mid) \o crc32_fill(mid, hi)

init_crc32_table == crc32_fill(0, 256)

\* the table as zero-initialised static storage leaves it
RECURSIVE zero_fill(_, _)
zero_fill(lo, hi) ==
    IF hi = lo + 1 THEN <<(<<0, 0>>)>>
    ELSE LET mid == (lo + hi) \div 2
         IN zero_fill(lo, mid) \o zero_fill(mid, hi)

zero_crc32_table == zero_fill(0, 256)

crc32_step(table, crc, byte) ==
    LET table_index == Xor8(crc[2] % 256, byte)
    IN Xor32(Shr8(crc), table[table_index + 1])

RECURSIVE crc32_run(_, _, _, _)
crc32_run(table, crc, byte, n) ==
    IF n = 0 THEN crc
    ELSE IF n = 1 THEN crc32_step(table, crc, byte)
    ELSE LET h == n \div 2
             c == crc32_run(table, crc, byte, h)
         IN IF c[1] >= 0 THEN crc32_run(table, c, byte, n - h) ELSE c

RECURSIVE crc32_fold(_, _, _)
crc32_fold(table, crc, r) ==
    IF r = <<>> THEN crc
    ELSE LET c == crc32_run(table, crc, r[1].b, r[1].n)
         IN IF c[1] >= 0 THEN crc32_fold(table, c, Tail(r)) ELSE c

\* calculate_crc32(data, size) with the table contents given
calculate_crc32(table, data, size) ==
    Xor32(crc32_fold(table, ERASED_WORD, RTake(data, size)), ERASED_WORD)

(***************************************************************************)
(* Digests and signatures (the verification chain of the manifest)         *)
(***************************************************************************)
\* SHA-512 as an ideal, collision-free digest of the bytes it is given
sha512(data) == [sha512 |-> data]

pinned_pubkey == "pinned_pubkey"

\* the signature the provisioning authority produces over a digest
Sign(key, hash) == [signer |-> key, msg |-> hash]

\* a 64-byte block that is no signature of anything (all bytes 0xFF)
SIG_FF == [signer |-> "none", msg |-> [sha512 |-> Run(255, 64)]]

verify_ed25519(msg, sig, pubkey) == sig.signer = pubkey /\ sig.msg = msg

(***************************************************************************)
(* Bounds of the model                                                     *)
(***************************************************************************)
\* largest value the clock counter may reach by single reads
MaxClock == 3

\* single clock reads allowed around a stalled update
StallClock == 4

\* length of the run of watchdog polls the host makes while an update stalls
PollRun == WATCHDOG_TIMEOUT

\* largest timestamp of an image already in flash at power-up
MaxInitStamp == 2

(***************************************************************************)
(* Inputs: images and manifests presented to the engine                    *)
(***************************************************************************)
ImageV1 == Bytes(<<144>>)

ImageV2 == Bytes(<<176, 177>>)

ImageOversize == Run(170, MaxAgentSize + 1)

Manifest(version, data, signature, hash) ==
    [version |-> version, agent_id |-> 4660, flash_size |-> RLen(data),
     sram_size |-> 4, signature |-> signature, hash |-> hash]

GoodManifest(version, data) ==
    Manifest(version, data, Sign(pinned_pubkey, sha512(data)), sha512(data))

\* the manifest record that stands behind a NULL manifest pointer
NoManifest ==
    [version |-> 0, agent_id |-> 0, flash_size |-> 0, sram_size |-> 0,
     signature |-> SIG_FF, hash |-> sha512(<<>>)]

\* the arguments of an update call; data_null and manifest_null say that the
\* pointer passed is NULL (the data and manifest fields are then not read)
Request(data, manifest) ==
    [data |-> data, size |-> RLen(data), manifest |-> manifest,
     data_null |-> FALSE, manifest_null |-> FALSE]

NoRequest ==
    [data |-> <<>>, size |-> 0, manifest |-> NoManifest,
     data_null |-> TRUE, manifest_null |-> TRUE]

Requests ==
    { Request(ImageV2, GoodManifest(2, ImageV2)),
      \* wrong signature
      Request(ImageV2, Manifest(2, ImageV2, SIG_FF, sha512(ImageV2))),
      \* hash of another payload, correctly signed
      Request(ImageV2, GoodManifest(2, ImageV1)),
      Request(ImageOversize, GoodManifest(2, ImageOversize)),
      [Request(<<>>, GoodManifest(1, ImageV1)) EXCEPT !.data_null = TRUE],
      [Request(ImageV1, NoManifest) EXCEPT !.manifest_null = TRUE] }

\* the requests presented while the watchdog runs beside the update
StallRequests ==
    { Request(ImageV2, GoodManifest(2, ImageV2)),
      Request(ImageOversize, GoodManifest(2, ImageOversize)) }

(***************************************************************************)
(* Flash: two slots, each a payload region and a trailing metadata block   *)
(***************************************************************************)
Slots == {0, 1}

ErasedSlot ==
    [data |-> Memset(255, MaxAgentSize),
     meta |-> [magic |-> ERASED_WORD, version |-> ERASED_WORD,
               size |-> ERASED_WORD, crc32 |-> ERASED_WORD,
               timestamp |-> ERASED_WORD, signature |-> SIG_FF,
               reserved |-> Run(255, 32)]]

\* the metadata block write_agent_to_slot builds
NewMetadata(table, agent_data, agent_size, manifest, now) ==
    [magic |-> MAGIC,
     version |-> U32(manifest.version),
     size |-> U32(agent_size),
     crc32 |-> calculate_crc32(table, agent_data, agent_size),
     timestamp |-> U32(now),
     signature |-> manifest.signature,
     reserved |-> Run(0, 32)]

\* a slot as an earlier run of the engine left it
StoredSlot(data, manifest, stamp) ==
    [data |-> Memcpy(ErasedSlot.data, data, RLen(data)),
     meta |-> NewMetadata(init_crc32_table, data, RLen(data), manifest, stamp)]

\* a stored slot one payload byte of which has decayed
CorruptSlot(data, manifest, stamp) ==
    [StoredSlot(data, manifest, stamp) EXCEPT !.data = Memcpy(@, Run(0, 1), 1)]

InitSlots ==
    {ErasedSlot, CorruptSlot(ImageV1, GoodManifest(1, ImageV1), 1)}
    \cup {StoredSlot(ImageV1, GoodManifest(1, ImageV1), t) : t \in 1..MaxInitStamp}

(***************************************************************************)
(* The application modules beside the update engine: the agent loader      *)
(* (agent_loader.c), the preprocessor (preprocess.c), the inference module *)
(* (infer.c) and the runtime facade (edgeplug_runtime.c).  Their state is  *)
(* file-scope statics.                                                     *)
(*                                                                         *)
(* Representation.                                                         *)
(*  - A float of the preprocessor is a fixed-point number: an integer      *)
(*    count of tenths of a volt, every filter step rounded to the nearest  *)
(*    tenth (the float rounds to 24 significant bits instead).             *)
(*  - An output parameter is a sequence: <<>> while the callee has not     *)
(*    stored through the pointer, <<v>> once it has stored v.              *)
(***************************************************************************)
EDGEPLUG_ERROR_AGENT_LOAD == -3

EDGEPLUG_ERROR_INFERENCE == -4

MAX_AGENT_SIZE == 14336

WINDOW_BUFFER_SIZE == 1024

MAX_WINDOW_SIZE == 256

DEFAULT_WINDOW_SIZE == 64

INFERENCE_BUFFER_SIZE == 1024

\* fixed-point units per volt
TENTHS == 10

\* filter_alpha = 0.1f as the fraction <<numerator, denominator>>
filter_alpha == <<1, 10>>

Unwritten == <<>>

Written(v) == <<v>>

\* an edgeplug_manifest_t of all-zero bytes
ZeroManifest ==
    [version |-> 0, agent_id |-> 0, flash_size |-> 0, sram_size |-> 0,
     signature |-> Run(0, 64), hash |-> Run(0, 64)]

\* statics of agent_loader.c
LoaderStatics ==
    [agent_slot_a |-> Run(0, AGENT_SLOT_SIZE),
     agent_slot_b |-> Run(0, AGENT_SLOT_SIZE),
     slot_a_active |-> TRUE,
     current_manifest |-> ZeroManifest]

\* statics of preprocess.c; filtered_voltage is the static local of
\* preprocess_add_sample
PreprocessStatics ==
    [window_buffer |-> Run(0, WINDOW_BUFFER_SIZE),
     window_index |-> 0,
     window_size |-> DEFAULT_WINDOW_SIZE,
     window_full |-> FALSE,
     filtered_voltage |-> 0]

\* statics of infer.c; software_timer is the static local of
\* get_system_time_ms; a scale is a fraction <<numerator, denominator>>;
\* model_buffer has MAX_MODEL_SIZE bytes
MAX_MODEL_SIZE == 8192

InferStatics ==
    [inference_buffer |-> Run(0, INFERENCE_BUFFER_SIZE),
     model_buffer |-> Run(0, MAX_MODEL_SIZE),
     model_size |-> 0, model_loaded |-> FALSE,
     inference_count |-> 0, total_inference_time |-> 0,
     max_inference_time |-> 0, software_timer |-> 0,
     input_scale |-> <<1, 64>>, output_scale |-> <<64, 1>>,
     input_zero_point |-> 0, output_zero_point |-> 0]

\* statics of actuator.c; the tables hold their first node_count,
\* register_count and pin_count entries; software_timer is the static local
\* of get_system_time_ms
ZeroOpcuaConfig ==
    [node_ids |-> <<>>, values |-> <<>>, node_count |-> 0,
     connected |-> FALSE]

ZeroModbusConfig ==
    [register_addresses |-> <<>>, register_values |-> <<>>,
     register_count |-> 0, connected |-> FALSE, slave_id |-> 0]

ZeroGpioConfig ==
    [pin_numbers |-> <<>>, pin_states |-> <<>>, pin_count |-> 0,
     initialized |-> FALSE]

ActuatorStatics ==
    [opcua_config |-> ZeroOpcuaConfig,
     modbus_config |-> ZeroModbusConfig,
     gpio_config |-> ZeroGpioConfig,
     actuation_count |-> 0, total_actuation_time |-> 0,
     max_actuation_time |-> 0, software_timer |-> 0]

\* the fields of a manifest_t that bootloader_patch.c reads
ZeroBootManifest ==
    [signature |-> Run(0, 64), agent_hash |-> Run(0, 64),
     flash_bytes |-> 0, sram_bytes |-> 0,
     safety_level |-> 0, invariant_count |-> 0]

\* static manifest_verify_ctx_t verify_ctx = {0}
BootStatics ==
    [manifest |-> ZeroBootManifest, public_key |-> Run(0, 32),
     signature |-> Run(0, 64), hash |-> Run(0, 64), verified |-> FALSE]

ZeroConfig ==
    [window_size |-> 0, sample_rate |-> 0, inference_interval |-> 0,
     enable_safety_guard |-> FALSE, enable_hotswap |-> FALSE]

\* static runtime_state = {0}
RuntimeStatics ==
    [config |-> ZeroConfig, initialized |-> FALSE, sensor_count |-> 0,
     inference_count |-> 0, safety_trips |-> 0]

\* the last completed call of an application module: operation, arguments,
\* status returned and values stored through the output parameters
Api(op, arg, ret, out) == [op |-> op, arg |-> arg, ret |-> ret, out |-> out]

NoApi == Api("power_up", <<>>, EDGEPLUG_OK, <<>>)

\* fed counts the samples added since power-up, since_reset those added since
\* the last successful preprocess_init or preprocess_reset; first is the
\* voltage of the first of these (-1 while there is none) and constant says
\* that all of them had that voltage; up says that edgeplug_init has returned
\* EDGEPLUG_OK and edgeplug_deinit has not since
NoHistory ==
    [fed |-> 0, since_reset |-> 0, first |-> -1, constant |-> TRUE,
     up |-> FALSE]

Restarted(h) == [h EXCEPT !.since_reset = 0, !.first = -1, !.constant = TRUE]

Added(h, voltage) ==
    [fed |-> h.fed + 1,
     since_reset |-> h.since_reset + 1,
     first |-> IF h.since_reset = 0 THEN voltage ELSE h.first,
     constant |-> IF h.since_reset = 0 THEN TRUE
                  ELSE h.constant /\ voltage = h.first,
     up |-> h.up]

(***************************************************************************)
(* State                                                                   *)
(***************************************************************************)
VARIABLES
    flash,              \* [Slots -> slot]: the two slot regions
    hotswap_state,      \* static hotswap_state_t
    crc32_table_filled, \* whether init_crc32_table has run since power-up
    time_counter,       \* static counter of get_system_time_ms
    frame,              \* the activation record of a running hotswap_update_agent
    call,               \* the last completed call: operation, arguments, result
    cold_start,         \* history: progress of a cold start (no valid slot at init)
    agent_loader,       \* statics of agent_loader.c
    preprocess,         \* statics of preprocess.c
    infer,              \* statics of infer.c
    runtime_state,      \* static runtime_state of edgeplug_runtime.c
    build,              \* which definition of calculate_hash the loader is built with
    actuator,           \* statics of actuator.c
    verify_ctx,         \* static verify_ctx of bootloader_patch.c
    api,                \* the last completed call of an application module
    hist                \* history: samples added to the preprocessor

hotswap_vars ==
    <<flash, hotswap_state, crc32_table_filled, time_counter, frame, call,
      cold_start>>

app_vars ==
    <<agent_loader, preprocess, infer, runtime_state, build, verify_ctx, actuator, api,
      hist>>

vars ==
    <<flash, hotswap_state, crc32_table_filled, time_counter, frame, call,
      cold_start, agent_loader, preprocess, infer, runtime_state, build, verify_ctx,
      actuator, api, hist>>

ZeroState ==
    [active_slot |-> 0, update_in_progress |-> 0, update_start_time |-> 0,
     update_attempts |-> 0, successful_updates |-> 0, failed_updates |-> 0,
     last_update_timestamp |-> 0]

IdleFrame == [pc |-> "idle", req |-> NoRequest, inactive_slot |-> 0]

\* ret is the status returned; ptr and size are the results of
\* hotswap_get_active_agent (the pointer returned and the value stored in *size)
Call(op, req, ret) ==
    [op |-> op, req |-> req, ret |-> ret, ptr |-> NULL, size |-> U32(0)]

\* cold_start.phase is "cold" once init has found no valid slot, "staged" once
\* an update has then succeeded (req and slot record what was staged and
\* where), and "none" after any other change of the slots or the active slot
NoColdStart == [phase |-> "none", req |-> NoRequest, slot |-> 0]

crc32_table == IF crc32_table_filled THEN init_crc32_table ELSE zero_crc32_table

\* the application statics as the loader of the program image leaves them
AppPowerUp ==
    /\ agent_loader = LoaderStatics
    /\ preprocess = PreprocessStatics
    /\ infer = InferStatics
    /\ runtime_state = RuntimeStatics
    /\ actuator = ActuatorStatics
    /\ verify_ctx = BootStatics
    /\ api = NoApi
    /\ hist = NoHistory

Init ==
    /\ flash \in [Slots -> InitSlots]
    /\ hotswap_state = ZeroState
    /\ crc32_table_filled = FALSE
    /\ time_counter = 0
    /\ frame = IdleFrame
    /\ call = Call("power_up", NoRequest, EDGEPLUG_OK)
    /\ cold_start = NoColdStart
    /\ AppPowerUp
    /\ build = "second"

(***************************************************************************)
(* Slot access                                                             *)
(***************************************************************************)
read_slot_metadata(fl, slot) == fl[slot].meta

write_slot_metadata(fl, slot, metadata) == [fl EXCEPT ![slot].meta = metadata]

validate_agent_slot(table, fl, slot) ==
    LET metadata == read_slot_metadata(fl, slot)
    IN IF metadata.magic # MAGIC THEN FALSE
       ELSE IF U32Gt(metadata.size, U32(MaxAgentSize)) THEN FALSE
       ELSE calculate_crc32(table, fl[slot].data, metadata.size[2])
                = metadata.crc32

\* variant: the slot written is the active one
get_inactive_slot_same(hs) == hs.active_slot

get_inactive_slot(hs) == IF hs.active_slot = 0 THEN 1 ELSE 0

SlotPtr(slot) == IF slot = 0 THEN SLOT_A_PTR ELSE SLOT_B_PTR

(***************************************************************************)
(* The engine's functions, as functions of the machine state               *)
(*   m = [flash, hs, time]                                                 *)
(* get_system_time_ms returns the counter and increments it.               *)
(***************************************************************************)
Machine == [flash |-> flash, hs |-> hotswap_state, time |-> time_counter]

\* hotswap_init: the slot chosen; NO_SLOT when neither slot validates
NO_SLOT == 2

\* variant: the older of two valid slots is chosen
init_active_slot_older(table, fl) ==
    LET slot_a_valid == validate_agent_slot(table, fl, 0)
        slot_b_valid == validate_agent_slot(table, fl, 1)
        metadata_a == read_slot_metadata(fl, 0)
        metadata_b == read_slot_metadata(fl, 1)
    IN IF slot_a_valid /\ slot_b_valid
       THEN (IF U32Gt(metadata_b.timestamp, metadata_a.timestamp) THEN 0 ELSE 1)
       ELSE IF slot_a_valid THEN 0
       ELSE IF slot_b_valid THEN 1
       ELSE NO_SLOT

\* variant: slot A is made active when only slot B validates
init_active_slot_only_a(table, fl) ==
    LET slot_a_valid == validate_agent_slot(table, fl, 0)
        slot_b_valid == validate_agent_slot(table, fl, 1)
        metadata_a == read_slot_metadata(fl, 0)
        metadata_b == read_slot_metadata(fl, 1)
    IN IF slot_a_valid /\ slot_b_valid
       THEN (IF U32Gt(metadata_a.timestamp, metadata_b.timestamp) THEN 0 ELSE 1)
       ELSE IF slot_a_valid THEN 0
       ELSE IF slot_b_valid THEN 0
       ELSE NO_SLOT

init_active_slot(table, fl) ==
    LET slot_a_valid == validate_agent_slot(table, fl, 0)
        slot_b_valid == validate_agent_slot(table, fl, 1)
        metadata_a == read_slot_metadata(fl, 0)
        metadata_b == read_slot_metadata(fl, 1)
    IN IF slot_a_valid /\ slot_b_valid
       THEN (IF U32Gt(metadata_a.timestamp, metadata_b.timestamp) THEN 0 ELSE 1)
       ELSE IF slot_a_valid THEN 0
       ELSE IF slot_b_valid THEN 1
       ELSE NO_SLOT

hotswap_init(m) ==
    LET chosen == init_active_slot(init_crc32_table, m.flash)
    IN IF chosen = NO_SLOT
       THEN [m |-> [m EXCEPT !.hs = ZeroState], ret |-> EDGEPLUG_ERROR_HOTSWAP]
       ELSE [m |-> [m EXCEPT !.hs = [ZeroState EXCEPT !.active_slot = chosen]],
             ret |-> EDGEPLUG_OK]

\* hotswap_get_active_agent(size); size_ptr is FALSE for a NULL argument
hotswap_get_active_agent(m, size_ptr) ==
    IF ~size_ptr
    THEN [ptr |-> NULL, size |-> U32(0)]
    ELSE [ptr |-> SlotPtr(m.hs.active_slot),
          size |-> read_slot_metadata(m.flash, m.hs.active_slot).size]

\* hotswap_update_agent, lines 248-260: argument and in-progress checks, start
update_enter(m, req) ==
    IF req.data_null \/ req.manifest_null
    THEN [m |-> m, pc |-> "idle", ret |-> EDGEPLUG_ERROR_INVALID_PARAM]
    ELSE IF m.hs.update_in_progress # 0
    THEN [m |-> m, pc |-> "idle", ret |-> EDGEPLUG_ERROR_HOTSWAP]
    ELSE [m |-> [m EXCEPT !.hs.update_in_progress = 1,
                          !.hs.update_start_time = m.time,
                          !.hs.update_attempts = @ + 1,
                          !.time = @ + 1],
          pc |-> "started", ret |-> EDGEPLUG_OK]

\* variant: a failed update also switches to the other slot
update_fail_switching(m, status) ==
    [m |-> [m EXCEPT !.hs.update_in_progress = 0,
                     !.hs.failed_updates = @ + 1,
                     !.hs.active_slot = IF @ = 0 THEN 1 ELSE 0],
     pc |-> "idle", ret |-> status]

\* variant: a failed update returns with the flag still set
update_fail_flagged(m, status) ==
    [m |-> [m EXCEPT !.hs.failed_updates = @ + 1],
     pc |-> "idle", ret |-> status]

\* the failure exits of hotswap_update_agent (lines 268-272 and 275-279)
update_fail(m, status) ==
    [m |-> [m EXCEPT !.hs.update_in_progress = 0,
                     !.hs.failed_updates = @ + 1],
     pc |-> "idle", ret |-> status]

\* variant: an oversize payload is refused without being counted as a failure
update_write_data_uncounted(m, req, slot) ==
    IF req.size > MaxAgentSize
    THEN [m |-> [m EXCEPT !.hs.update_in_progress = 0],
          pc |-> "idle", ret |-> EDGEPLUG_ERROR_MEMORY]
    ELSE [m |-> [m EXCEPT !.flash[slot].data = Memcpy(@, req.data, req.size)],
          pc |-> "data_written", ret |-> EDGEPLUG_OK]

\* line 263 and write_agent_to_slot up to the payload memcpy (lines 211-222)
update_write_data(m, req, slot) ==
    IF req.size > MaxAgentSize
    THEN update_fail(m, EDGEPLUG_ERROR_MEMORY)
    ELSE [m |-> [m EXCEPT !.flash[slot].data = Memcpy(@, req.data, req.size)],
          pc |-> "data_written", ret |-> EDGEPLUG_OK]

\* write_agent_to_slot, lines 225-240: build and write the metadata block
update_write_meta(table, m, req, slot) ==
    [m |-> [m EXCEPT !.flash = write_slot_metadata(@, slot,
                        NewMetadata(table, req.data, req.size, req.manifest, m.time)),
                     !.time = @ + 1],
     pc |-> "meta_written", ret |-> EDGEPLUG_OK]

\* variant: the commit leaves active_slot as it was
update_finish_no_switch(table, m, slot) ==
    IF ~validate_agent_slot(table, m.flash, slot)
    THEN update_fail(m, EDGEPLUG_ERROR_HOTSWAP)
    ELSE [m |-> [m EXCEPT !.hs.update_in_progress = 0,
                          !.hs.successful_updates = @ + 1,
                          !.hs.last_update_timestamp = m.time,
                          !.time = @ + 1],
          pc |-> "idle", ret |-> EDGEPLUG_OK]

\* lines 275-287: re-validate the written slot, then switch to it
update_finish(table, m, slot) ==
    IF ~validate_agent_slot(table, m.flash, slot)
    THEN update_fail(m, EDGEPLUG_ERROR_HOTSWAP)
    ELSE [m |-> [m EXCEPT !.hs.active_slot = slot,
                          !.hs.update_in_progress = 0,
                          !.hs.successful_updates = @ + 1,
                          !.hs.last_update_timestamp = m.time,
                          !.time = @ + 1],
          pc |-> "idle", ret |-> EDGEPLUG_OK]

\* hotswap_update_agent run from entry to return
hotswap_update_agent(table, m, req) ==
    LET e1 == update_enter(m, req)
        slot == get_inactive_slot(e1.m.hs)
        e2 == update_write_data(e1.m, req, slot)
        e3 == update_write_meta(table, e2.m, req, slot)
        e4 == update_finish(table, e3.m, slot)
    IN IF e1.pc = "idle" THEN e1
       ELSE IF e2.pc = "idle" THEN e2
       ELSE e4

\* variant: the active slot is validated in place of the other one
hotswap_rollback_checks_active(table, m) ==
    LET previous_slot == get_inactive_slot(m.hs)
    IN IF ~validate_agent_slot(table, m.flash, m.hs.active_slot)
       THEN [m |-> m, ret |-> EDGEPLUG_ERROR_HOTSWAP]
       ELSE [m |-> [m EXCEPT !.hs.active_slot = previous_slot],
             ret |-> EDGEPLUG_OK]

\* variant: the rollback reports success and leaves the active slot
hotswap_rollback_stays(table, m) ==
    LET previous_slot == get_inactive_slot(m.hs)
    IN IF ~validate_agent_slot(table, m.flash, previous_slot)
       THEN [m |-> m, ret |-> EDGEPLUG_ERROR_HOTSWAP]
       ELSE [m |-> m, ret |-> EDGEPLUG_OK]

hotswap_rollback(table, m) ==
    LET previous_slot == get_inactive_slot(m.hs)
    IN IF ~validate_agent_slot(table, m.flash, previous_slot)
       THEN [m |-> m, ret |-> EDGEPLUG_ERROR_HOTSWAP]
       ELSE [m |-> [m EXCEPT !.hs.active_slot = previous_slot],
             ret |-> EDGEPLUG_OK]

\* hotswap_watchdog_check; the clock is read only while an update is in progress
hotswap_watchdog_check(table, m) ==
    IF m.hs.update_in_progress # 0
    THEN LET current_time == m.time
             update_duration == current_time - m.hs.update_start_time
             m1 == [m EXCEPT !.time = @ + 1]
         IN IF update_duration > WATCHDOG_TIMEOUT
            THEN [hotswap_rollback(table, m1).m EXCEPT
                      !.hs.update_in_progress = 0,
                      !.hs.failed_updates = @ + 1]
            ELSE m1
    ELSE m

\* hotswap_clear_slot(slot) for slot <= 1: the whole region, metadata included
hotswap_clear_slot(m, slot) == [m EXCEPT !.flash[slot] = ErasedSlot]

(***************************************************************************)
(* Actions: single-threaded calls of the engine (each runs to its return)  *)
(***************************************************************************)
Store(m) ==
    /\ flash' = m.flash
    /\ hotswap_state' = m.hs
    /\ time_counter' = m.time

HotswapInit ==
    /\ frame.pc = "idle"
    /\ \E r \in {hotswap_init(Machine)} :
          /\ Store(r.m)
          /\ call' = Call("init", NoRequest, r.ret)
          /\ cold_start' = IF r.ret # EDGEPLUG_OK
                              THEN [NoColdStart EXCEPT !.phase = "cold"]
                           ELSE IF cold_start.phase = "staged" THEN cold_start
                           ELSE NoColdStart
    /\ crc32_table_filled' = TRUE
    /\ UNCHANGED frame
    /\ UNCHANGED app_vars

HotswapGetActiveAgent ==
    /\ \E size_ptr \in BOOLEAN :
          \E r \in {hotswap_get_active_agent(Machine, size_ptr)} :
             call' = [Call("active", NoRequest, EDGEPLUG_OK) EXCEPT
                          !.ptr = r.ptr, !.size = r.size]
    /\ UNCHANGED <<flash, hotswap_state, crc32_table_filled, time_counter,
                   frame, cold_start>>
    /\ UNCHANGED app_vars

HotswapUpdateAgent ==
    /\ frame.pc = "idle"
    /\ \E req \in Requests :
          \E r \in {hotswap_update_agent(crc32_table, Machine, req)} :
             /\ r.m.time <= MaxClock
             /\ Store(r.m)
             /\ call' = Call("update", req, r.ret)
             /\ cold_start' = IF cold_start.phase = "cold"
                              THEN (IF r.ret = EDGEPLUG_OK
                                    THEN [phase |-> "staged", req |-> req,
                                          slot |-> get_inactive_slot(hotswap_state)]
                                    ELSE cold_start)
                              ELSE NoColdStart
    /\ UNCHANGED <<crc32_table_filled, frame>>
    /\ UNCHANGED app_vars

HotswapRollback ==
    /\ frame.pc = "idle"
    /\ \E r \in {hotswap_rollback(crc32_table, Machine)} :
          /\ Store(r.m)
          /\ call' = Call("rollback", NoRequest, r.ret)
    /\ cold_start' = NoColdStart
    /\ UNCHANGED <<crc32_table_filled, frame>>
    /\ UNCHANGED app_vars

\* the clock stays within StallClock single reads of a multiple of PollRun
HotswapWatchdogCheck ==
    /\ \E m \in {hotswap_watchdog_check(crc32_table, Machine)} :
          /\ m.time % PollRun <= StallClock
          /\ Store(m)
          /\ cold_start' = IF m.hs = hotswap_state THEN cold_start ELSE NoColdStart
    /\ call' = Call("watchdog", NoRequest, EDGEPLUG_OK)
    /\ UNCHANGED <<crc32_table_filled, frame>>
    /\ UNCHANGED app_vars

HotswapClearSlot ==
    /\ frame.pc = "idle"
    /\ \E slot \in 0..2 :
          IF slot > 1
          THEN /\ call' = Call("clear", NoRequest, EDGEPLUG_ERROR_INVALID_PARAM)
               /\ UNCHANGED <<flash, hotswap_state, time_counter, cold_start>>
          ELSE /\ Store(hotswap_clear_slot(Machine, slot))
               /\ call' = Call("clear", NoRequest, EDGEPLUG_OK)
               /\ cold_start' = NoColdStart
    /\ UNCHANGED <<crc32_table_filled, frame>>
    /\ UNCHANGED app_vars

\* power cycle: the statics in RAM return to zero, flash keeps its contents
PowerCycle ==
    /\ hotswap_state' = ZeroState
    /\ crc32_table_filled' = FALSE
    /\ time_counter' = 0
    /\ frame' = IdleFrame
    /\ call' = Call("power_up", NoRequest, EDGEPLUG_OK)
    /\ cold_start' = IF cold_start.phase = "staged" /\ frame.pc = "idle"
                     THEN cold_start ELSE NoColdStart
    /\ UNCHANGED flash
    /\ UNCHANGED app_vars

Next ==
    \/ HotswapInit
    \/ HotswapGetActiveAgent
    \/ HotswapUpdateAgent
    \/ HotswapRollback
    \/ HotswapWatchdogCheck
    \/ HotswapClearSlot
    \/ PowerCycle

Spec == Init /\ [][Next]_vars

(***************************************************************************)
(* Actions: hotswap_update_agent statement by statement, with the watchdog *)
(* invoked from the host's timer while the update has not returned.  One   *)
(* activation of hotswap_update_agent runs at a time.                      *)
(***************************************************************************)
Returned(req, r) ==
    /\ frame' = IdleFrame
    /\ call' = Call("update", req, r.ret)

UpdateEnter ==
    /\ frame.pc = "idle"
    /\ \E req \in StallRequests :
          \E r \in {update_enter(Machine, req)} :
             /\ r.m.time <= MaxClock
             /\ Store(r.m)
             /\ IF r.pc = "idle"
                THEN Returned(req, r)
                ELSE /\ frame' = [pc |-> r.pc, req |-> req, inactive_slot |-> 0]
                     /\ UNCHANGED call
    /\ cold_start' = NoColdStart
    /\ UNCHANGED crc32_table_filled
    /\ UNCHANGED app_vars

UpdateWriteData ==
    /\ frame.pc = "started"
    /\ \E slot \in {get_inactive_slot(hotswap_state)} :
          \E r \in {update_write_data(Machine, frame.req, slot)} :
             /\ Store(r.m)
             /\ IF r.pc = "idle"
                THEN Returned(frame.req, r)
                ELSE /\ frame' = [frame EXCEPT !.pc = r.pc, !.inactive_slot = slot]
                     /\ UNCHANGED call
    /\ UNCHANGED <<crc32_table_filled, cold_start>>
    /\ UNCHANGED app_vars

UpdateWriteMeta ==
    /\ frame.pc = "data_written"
    /\ \E r \in {update_write_meta(crc32_table, Machine, frame.req,
                                   frame.inactive_slot)} :
          /\ r.m.time % PollRun <= StallClock
          /\ Store(r.m)
          /\ frame' = [frame EXCEPT !.pc = r.pc]
    /\ UNCHANGED <<crc32_table_filled, call, cold_start>>
    /\ UNCHANGED app_vars

UpdateFinish ==
    /\ frame.pc = "meta_written"
    /\ \E r \in {update_finish(crc32_table, Machine, frame.inactive_slot)} :
          /\ r.m.time % PollRun <= StallClock
          /\ Store(r.m)
          /\ Returned(frame.req, r)
    /\ UNCHANGED <<crc32_table_filled, cold_start>>
    /\ UNCHANGED app_vars

\* PollRun consecutive calls of hotswap_watchdog_check during an update, none
\* of which finds the timeout exceeded: each reads the clock and returns
WatchdogPoll ==
    /\ hotswap_state.update_in_progress # 0
    /\ time_counter <= StallClock
    /\ (time_counter + PollRun - 1) - hotswap_state.update_start_time
           <= WATCHDOG_TIMEOUT
    /\ time_counter' = time_counter + PollRun
    /\ call' = Call("watchdog", NoRequest, EDGEPLUG_OK)
    /\ UNCHANGED <<flash, hotswap_state, crc32_table_filled, frame, cold_start>>
    /\ UNCHANGED app_vars

NextStall ==
    \/ HotswapInit
    \/ UpdateEnter
    \/ UpdateWriteData
    \/ UpdateWriteMeta
    \/ UpdateFinish
    \/ HotswapWatchdogCheck
    \/ WatchdogPoll
    \/ PowerCycle

SpecStall == Init /\ [][NextStall]_vars

(***************************************************************************)
(* What active() denotes: the pointer and size hotswap_get_active_agent    *)
(* returns, and the bytes of the slot the pair designates                  *)
(***************************************************************************)
ActiveView(m) ==
    LET r == hotswap_get_active_agent(m, TRUE)
        region == m.flash[m.hs.active_slot].data
    IN [ptr |-> r.ptr, size |-> r.size,
        bytes |-> IF U32Gt(r.size, U32(MaxAgentSize)) THEN region
                  ELSE RTake(region, r.size[2])]

SlotValid(slot) == validate_agent_slot(init_crc32_table, flash, slot)

Stamp(slot) == read_slot_metadata(flash, slot).timestamp

Counters(hs) ==
    <<hs.update_attempts, hs.successful_updates, hs.failed_updates>>

UpdateReturns == call'.op = "update"

UpdateFails == call'.op = "update" /\ call'.ret # EDGEPLUG_OK

UpdateSucceeds == call'.op = "update" /\ call'.ret = EDGEPLUG_OK

(***************************************************************************)
(* C1: every call of hotswap_update_agent that returns a failure leaves    *)
(* what active() returns unchanged: same slot, same size, same bytes.      *)
(***************************************************************************)
C1_FailedUpdateKeepsActive ==
    [][UpdateFails => ActiveView(Machine)' = ActiveView(Machine)]_vars

\* an oversize image was refused while a valid slot was active
C1_Witness ==
    /\ call.op = "update"
    /\ call.ret = EDGEPLUG_ERROR_MEMORY
    /\ hotswap_state.failed_updates = 1
    /\ SlotValid(hotswap_state.active_slot)
    /\ SlotValid(get_inactive_slot(hotswap_state))

(***************************************************************************)
(* C2: after a call of hotswap_update_agent that returns success, active() *)
(* returns the slot just written, with the staged length as size and the   *)
(* staged payload as content.                                              *)
(***************************************************************************)
C2_SuccessfulUpdateIsActive ==
    [][UpdateSucceeds =>
          ActiveView(Machine)' =
              [ptr |-> SlotPtr(get_inactive_slot(hotswap_state)),
               size |-> U32(call'.req.size),
               bytes |-> call'.req.data]]_vars

C2_Witness ==
    /\ call.op = "update"
    /\ call.ret = EDGEPLUG_OK
    /\ hotswap_state.successful_updates = 1
    /\ ActiveView(Machine).bytes = ImageV2

(***************************************************************************)
(* C3: every image hotswap_update_agent accepts has a payload whose        *)
(* SHA-512 equals manifest.hash and a signature over that hash that        *)
(* verifies under the pinned key; a request failing either check is        *)
(* rejected and counted as a failed update.                                *)
(***************************************************************************)
RequestVerifies(req) ==
    /\ sha512(req.data) = req.manifest.hash
    /\ verify_ed25519(req.manifest.hash, req.manifest.signature, pinned_pubkey)

C3_AcceptedImageVerifies ==
    [][(UpdateReturns /\ ~call'.req.data_null /\ ~call'.req.manifest_null
            /\ ~RequestVerifies(call'.req)) =>
          /\ call'.ret # EDGEPLUG_OK
          /\ hotswap_state'.active_slot = hotswap_state.active_slot
          /\ hotswap_state'.failed_updates = hotswap_state.failed_updates + 1]_vars

(***************************************************************************)
(* C4: hotswap_watchdog_check, called while an update is in progress and   *)
(* more than 30 000 ms after it started, clears update_in_progress, adds   *)
(* one to failed_updates and leaves the active slot as it was.             *)
(***************************************************************************)
WatchdogExpires ==
    /\ hotswap_state.update_in_progress # 0
    /\ time_counter - hotswap_state.update_start_time > WATCHDOG_TIMEOUT
    /\ call'.op = "watchdog"
    /\ time_counter' = time_counter + 1
    /\ frame' = frame

C4_WatchdogKeepsActiveSlot ==
    [][WatchdogExpires =>
          /\ hotswap_state'.update_in_progress = 0
          /\ hotswap_state'.failed_updates = hotswap_state.failed_updates + 1
          /\ hotswap_state'.active_slot = hotswap_state.active_slot]_vars

(***************************************************************************)
(* C5: when hotswap_init finds both slots valid with equal timestamps it   *)
(* makes slot A the active slot.                                           *)
(***************************************************************************)
C5_TieBreakPrefersSlotA ==
    [][call'.op = "init" /\ SlotValid(0) /\ SlotValid(1) /\ Stamp(0) = Stamp(1)
          => hotswap_state'.active_slot = 0]_vars

(***************************************************************************)
(* C6: hotswap_init chooses the active slot from validity and timestamps:  *)
(* the only valid slot; of two valid slots the one with the strictly       *)
(* larger timestamp; an error when neither is valid.  It never changes a   *)
(* byte of either slot.                                                    *)
(***************************************************************************)
C6_InitChoosesByValidityAndStamp ==
    [][call'.op = "init" =>
          /\ flash' = flash
          /\ (SlotValid(0) /\ ~SlotValid(1)) =>
                (call'.ret = EDGEPLUG_OK /\ hotswap_state'.active_slot = 0)
          /\ (~SlotValid(0) /\ SlotValid(1)) =>
                (call'.ret = EDGEPLUG_OK /\ hotswap_state'.active_slot = 1)
          /\ (SlotValid(0) /\ SlotValid(1) /\ U32Gt(Stamp(0), Stamp(1))) =>
                (call'.ret = EDGEPLUG_OK /\ hotswap_state'.active_slot = 0)
          /\ (SlotValid(0) /\ SlotValid(1) /\ U32Gt(Stamp(1), Stamp(0))) =>
                (call'.ret = EDGEPLUG_OK /\ hotswap_state'.active_slot = 1)
          /\ (~SlotValid(0) /\ ~SlotValid(1)) =>
                call'.ret = EDGEPLUG_ERROR_HOTSWAP]_vars

\* init has run with both slots valid and slot A the newer one
C6_Witness ==
    /\ call.op = "init"
    /\ call.ret = EDGEPLUG_OK
    /\ SlotValid(0) /\ SlotValid(1)
    /\ U32Gt(Stamp(0), Stamp(1))
    /\ hotswap_state.active_slot = 0

(***************************************************************************)
(* C7 as stated: every failure return of hotswap_update_agent, the         *)
(* rejections for null arguments and for an update in progress included,   *)
(* leaves active_slot unchanged and adds exactly one to failed_updates.    *)
(***************************************************************************)
C7_EveryFailureCounted ==
    [][UpdateFails =>
          /\ hotswap_state'.active_slot = hotswap_state.active_slot
          /\ hotswap_state'.failed_updates = hotswap_state.failed_updates + 1]_vars

(***************************************************************************)
(* C7 as amended: every failure return of hotswap_update_agent leaves      *)
(* active_slot unchanged.  A failure after the update has started          *)
(* (oversize payload, failed re-validation) adds exactly one to            *)
(* failed_updates and to update_attempts; a rejection before the start     *)
(* (null argument, update already in progress) changes no counter.         *)
(***************************************************************************)
RejectedBeforeStart(req) ==
    \/ req.data_null
    \/ req.manifest_null
    \/ hotswap_state.update_in_progress # 0

C7_StartedFailureCounted ==
    [][UpdateFails =>
          /\ hotswap_state'.active_slot = hotswap_state.active_slot
          /\ IF RejectedBeforeStart(call'.req)
             THEN Counters(hotswap_state') = Counters(hotswap_state)
             ELSE /\ hotswap_state'.failed_updates
                        = hotswap_state.failed_updates + 1
                  /\ hotswap_state'.update_attempts
                        = hotswap_state.update_attempts + 1
                  /\ hotswap_state'.successful_updates
                        = hotswap_state.successful_updates]_vars

\* a started update has failed and has been counted once
C7_Witness ==
    /\ call.op = "update"
    /\ call.ret = EDGEPLUG_ERROR_MEMORY
    /\ ~call.req.data_null /\ ~call.req.manifest_null
    /\ hotswap_state.update_attempts = 1
    /\ hotswap_state.failed_updates = 1
    /\ hotswap_state.update_in_progress = 0

(***************************************************************************)
(* C8: hotswap_get_active_agent returns no payload when no slot is active, *)
(* in particular when it is called right after hotswap_init has failed for *)
(* want of a valid slot.                                                   *)
(***************************************************************************)
C8_NoActiveSlotNoPayload ==
    [][(call.op = "init" /\ call.ret # EDGEPLUG_OK /\ call'.op = "active")
          => call'.ptr = NULL]_vars

(***************************************************************************)
(* C9: hotswap_rollback validates the slot that is not active; if it is    *)
(* valid the active slot becomes that slot and OK is returned, otherwise   *)
(* an error is returned and the active slot stays.  Slot contents and the  *)
(* three counters are unchanged either way.                                *)
(***************************************************************************)
C9_RollbackFlipsToValidSlot ==
    [][call'.op = "rollback" =>
          LET other == get_inactive_slot(hotswap_state)
          IN /\ flash' = flash
             /\ Counters(hotswap_state') = Counters(hotswap_state)
             /\ IF validate_agent_slot(crc32_table, flash, other)
                THEN /\ call'.ret = EDGEPLUG_OK
                     /\ hotswap_state'.active_slot = other
                ELSE /\ call'.ret = EDGEPLUG_ERROR_HOTSWAP
                     /\ hotswap_state'.active_slot
                            = hotswap_state.active_slot]_vars

\* a rollback was refused while the active slot itself was valid
C9_Witness ==
    /\ call.op = "rollback"
    /\ call.ret = EDGEPLUG_ERROR_HOTSWAP
    /\ crc32_table_filled
    /\ SlotValid(hotswap_state.active_slot)
    /\ ~SlotValid(get_inactive_slot(hotswap_state))

(***************************************************************************)
(* C10: cold start.  With both slots invalid hotswap_init returns the      *)
(* error; an update with a correctly hashed and signed image that fits a   *)
(* slot then succeeds; the next hotswap_init, on the next boot too,        *)
(* selects the slot that update wrote, and active() returns the staged     *)
(* bytes with the staged size.                                             *)
(***************************************************************************)
C10_ColdStart ==
    [][/\ (call'.op = "init" /\ ~SlotValid(0) /\ ~SlotValid(1)) =>
              (call'.ret = EDGEPLUG_ERROR_HOTSWAP /\ cold_start'.phase = "cold")
       /\ (cold_start.phase = "cold" /\ UpdateReturns
              /\ ~call'.req.data_null /\ ~call'.req.manifest_null
              /\ RequestVerifies(call'.req)
              /\ call'.req.size <= MaxAgentSize) =>
              (call'.ret = EDGEPLUG_OK /\ cold_start'.phase = "staged")
       /\ (cold_start.phase = "staged" /\ call'.op = "init") =>
              /\ call'.ret = EDGEPLUG_OK
              /\ hotswap_state'.active_slot = cold_start.slot
              /\ ActiveView(Machine)' =
                    [ptr |-> SlotPtr(cold_start.slot),
                     size |-> U32(cold_start.req.size),
                     bytes |-> cold_start.req.data]]_vars

\* init on the boot after the staging of a cold start has chosen the slot
C10_Witness ==
    /\ cold_start.phase = "staged"
    /\ call.op = "init"
    /\ time_counter = 0
    /\ hotswap_state.active_slot = cold_start.slot

(***************************************************************************)
(* Preprocessor (preprocess.c)                                             *)
(***************************************************************************)
\* buf[i] and buf[i] = v on a run-length encoded array
BufAt(buf, i) == RDrop(buf, i)[1].b

BufStore(buf, i, v) == RCat(RCat(RTake(buf, i), Run(v, 1)), RDrop(buf, i + 1))

\* a sensor sample as the preprocessor reads it: the voltage in volts;
\* null says that the pointer passed is NULL
Sample(voltage) == [null |-> FALSE, voltage |-> voltage]

NullSample == [null |-> TRUE, voltage |-> 0]

\* the preprocess_init variant that takes the limit as exclusive
preprocess_init_exclusive(p, window_sz) ==
    IF window_sz = 0 \/ window_sz >= MAX_WINDOW_SIZE
    THEN [p |-> p, ret |-> EDGEPLUG_ERROR_INVALID_PARAM]
    ELSE [p |-> [p EXCEPT !.window_size = window_sz,
                          !.window_index = 0,
                          !.window_full = FALSE,
                          !.window_buffer = Memset(0, WINDOW_BUFFER_SIZE)],
          ret |-> EDGEPLUG_OK]

preprocess_init(p, window_sz) ==
    IF window_sz = 0 \/ window_sz > MAX_WINDOW_SIZE
    THEN [p |-> p, ret |-> EDGEPLUG_ERROR_INVALID_PARAM]
    ELSE [p |-> [p EXCEPT !.window_size = window_sz,
                          !.window_index = 0,
                          !.window_full = FALSE,
                          !.window_buffer = Memset(0, WINDOW_BUFFER_SIZE)],
          ret |-> EDGEPLUG_OK]

\* filter_alpha * voltage + (1 - filter_alpha) * filtered_voltage, in tenths
\* of a volt, rounded to the nearest tenth
low_pass(voltage, filtered_voltage) ==
    LET num == filter_alpha[1] * (voltage * TENTHS)
               + (filter_alpha[2] - filter_alpha[1]) * filtered_voltage
    IN (2 * num + filter_alpha[2]) \div (2 * filter_alpha[2])

\* the preprocess_add_sample variant whose full flag follows the index
preprocess_add_sample_refill(p, sensor_data) ==
    IF sensor_data.null
    THEN [p |-> p, ret |-> EDGEPLUG_ERROR_INVALID_PARAM]
    ELSE LET filtered == low_pass(sensor_data.voltage, p.filtered_voltage)
             index == (p.window_index + 1) % p.window_size
         IN [p |-> [p EXCEPT
                      !.filtered_voltage = filtered,
                      !.window_buffer = BufStore(@, p.window_index, filtered),
                      !.window_index = index,
                      !.window_full = (index = 0)],
             ret |-> EDGEPLUG_OK]

preprocess_add_sample(p, sensor_data) ==
    IF sensor_data.null
    THEN [p |-> p, ret |-> EDGEPLUG_ERROR_INVALID_PARAM]
    ELSE LET filtered == low_pass(sensor_data.voltage, p.filtered_voltage)
             index == (p.window_index + 1) % p.window_size
         IN [p |-> [p EXCEPT
                      !.filtered_voltage = filtered,
                      !.window_buffer = BufStore(@, p.window_index, filtered),
                      !.window_index = index,
                      !.window_full = IF index = 0 THEN TRUE ELSE @],
             ret |-> EDGEPLUG_OK]

preprocess_is_window_ready(p) == p.window_full

preprocess_reset(p) ==
    [p |-> [p EXCEPT !.window_index = 0,
                     !.window_full = FALSE,
                     !.window_buffer = Memset(0, WINDOW_BUFFER_SIZE)],
     ret |-> EDGEPLUG_OK]

\* the first n elements of the window buffer
Window(p, n) == [i \in 1..n |-> BufAt(p.window_buffer, i - 1)]

RECURSIVE SumOf(_)
SumOf(w) == IF w = <<>> THEN 0 ELSE w[1] + SumOf(Tail(w))

RECURSIVE SumSqOf(_)
SumSqOf(w) == IF w = <<>> THEN 0 ELSE w[1] * w[1] + SumSqOf(Tail(w))

ISqrt(m) == CHOOSE k \in 0..(m + 1) : k * k <= m /\ m < (k + 1) * (k + 1)

\* (int32_t)(((x - mean) / std_dev) * 64.0f) clamped to int8, where
\* x - mean = dev / n and std_dev = sqrt(d) / n for the integers
\* dev = n * x - sum and d = n * sum_sq - sum * sum; a std_dev below 1e-6 is
\* exactly d = 0, and then every dev is 0.  The cast truncates toward zero:
\* the magnitude is floor(sqrt(floor(4096 * dev^2 / d))).
scale_to_int8(dev, d) ==
    IF d = 0 THEN 0
    ELSE LET a == dev * dev
             q == a \div d
             r == a % d
             q1 == (64 * r) \div d
             r1 == (64 * r) % d
             mag == ISqrt(4096 * q + 64 * q1 + (64 * r1) \div d)
             scaled == IF dev < 0 THEN 0 - mag ELSE mag
         IN IF scaled > 127 THEN 127
            ELSE IF scaled < -128 THEN -128
            ELSE scaled

preprocess_normalize_window(p, normalized_data, data_size) ==
    IF ~normalized_data \/ ~data_size \/ ~p.window_full
    THEN [ret |-> EDGEPLUG_ERROR_INVALID_PARAM,
          normalized_data |-> Unwritten, data_size |-> Unwritten]
    ELSE LET n == p.window_size
             w == Window(p, n)
             sum == SumOf(w)
             sum_sq == SumSqOf(w)
             d == n * sum_sq - sum * sum
         IN [ret |-> EDGEPLUG_OK,
             normalized_data |->
                 Written([i \in 1..n |-> scale_to_int8(n * w[i] - sum, d)]),
             data_size |-> Written(n)]

RECURSIVE MinOf(_)
MinOf(w) ==
    IF Len(w) = 1 THEN w[1]
    ELSE LET m == MinOf(Tail(w)) IN IF w[1] < m THEN w[1] ELSE m

RECURSIVE MaxOf(_)
MaxOf(w) ==
    IF Len(w) = 1 THEN w[1]
    ELSE LET m == MaxOf(Tail(w)) IN IF w[1] > m THEN w[1] ELSE m

\* the four pointers of preprocess_get_stats: TRUE for a pointer that is not
\* NULL.  The callers modelled pass all four or none, so *mean is never read
\* through a NULL mean.
AllPointers == [mean |-> TRUE, std_dev |-> TRUE, min_val |-> TRUE, max_val |-> TRUE]

NoPointers == [mean |-> FALSE, std_dev |-> FALSE, min_val |-> FALSE, max_val |-> FALSE]

NoStats ==
    [mean |-> Unwritten, std_dev |-> Unwritten, min_val |-> Unwritten,
     max_val |-> Unwritten]

\* the preprocess_get_stats variant that clears its outputs before the check
preprocess_get_stats_clearing(p, ptr) ==
    [ret |-> IF p.window_full THEN EDGEPLUG_OK ELSE EDGEPLUG_ERROR_INVALID_PARAM,
     out |-> [mean |-> IF ptr.mean THEN Written([sum |-> 0, n |-> 1]) ELSE Unwritten,
              std_dev |-> IF ptr.std_dev
                          THEN Written([sum_sq |-> 0, sum |-> 0, n |-> 1])
                          ELSE Unwritten,
              min_val |-> IF ptr.min_val THEN Written(0) ELSE Unwritten,
              max_val |-> IF ptr.max_val THEN Written(0) ELSE Unwritten]]

\* the mean is the quotient sum / n and the deviation the root of
\* sum_sq / n - (sum / n)^2; both are reported by their operands
preprocess_get_stats(p, ptr) ==
    IF ~p.window_full
    THEN [ret |-> EDGEPLUG_ERROR_INVALID_PARAM, out |-> NoStats]
    ELSE LET n == p.window_size
             w == Window(p, n)
             sum == SumOf(w)
             sum_sq == SumSqOf(w)
         IN [ret |-> EDGEPLUG_OK,
             out |-> [mean |-> IF ptr.mean THEN Written([sum |-> sum, n |-> n])
                               ELSE Unwritten,
                      std_dev |-> IF ptr.std_dev
                                  THEN Written([sum_sq |-> sum_sq, sum |-> sum,
                                                n |-> n])
                                  ELSE Unwritten,
                      min_val |-> IF ptr.min_val THEN Written(MinOf(w))
                                  ELSE Unwritten,
                      max_val |-> IF ptr.max_val THEN Written(MaxOf(w))
                                  ELSE Unwritten]]

(***************************************************************************)
(* Bounds and inputs of the preprocessor                                   *)
(***************************************************************************)
\* largest window size configured besides the limits of the range
MaxWindow == 4

\* samples added since power-up while the window is small
MaxSamples == 5

\* samples added beyond MAX_WINDOW_SIZE while the window is at its limit
MaxExtraSamples == 2

\* window sizes passed to preprocess_init: small ones and the first one
\* beyond the range
WindowSizes == (0..MaxWindow) \cup {MAX_WINDOW_SIZE + 1}

\* window sizes around both ends of the accepted range
BoundaryWindowSizes == {0, 1, MAX_WINDOW_SIZE, MAX_WINDOW_SIZE + 1}

Samples == {Sample(0), Sample(100), NullSample}

SteadySamples == {Sample(100)}

(***************************************************************************)
(* Actions: one call of a preprocessor function each                       *)
(***************************************************************************)
\* the update engine in the state the program image leaves it in, with both
\* slots erased
HotswapPowerUp ==
    /\ flash = [s \in Slots |-> ErasedSlot]
    /\ hotswap_state = ZeroState
    /\ crc32_table_filled = FALSE
    /\ time_counter = 0
    /\ frame = IdleFrame
    /\ call = Call("power_up", NoRequest, EDGEPLUG_OK)
    /\ cold_start = NoColdStart

PreprocessInit(sizes) ==
    /\ \E window_sz \in sizes :
          \E r \in {preprocess_init(preprocess, window_sz)} :
             /\ preprocess' = r.p
             /\ api' = Api("preprocess_init", window_sz, r.ret, <<>>)
             /\ hist' = IF r.ret = EDGEPLUG_OK THEN Restarted(hist) ELSE hist
    /\ UNCHANGED <<agent_loader, infer, runtime_state, build, verify_ctx, actuator>>
    /\ UNCHANGED hotswap_vars

PreprocessAddSample(samples, cap) ==
    /\ hist.fed < cap
    /\ \E sensor_data \in samples :
          \E r \in {preprocess_add_sample(preprocess, sensor_data)} :
             /\ preprocess' = r.p
             /\ api' = Api("preprocess_add_sample", sensor_data, r.ret, <<>>)
             /\ hist' = IF r.ret = EDGEPLUG_OK
                        THEN Added(hist, sensor_data.voltage) ELSE hist
    /\ UNCHANGED <<agent_loader, infer, runtime_state, build, verify_ctx, actuator>>
    /\ UNCHANGED hotswap_vars

PreprocessNormalizeWindow ==
    /\ \E normalized_data \in BOOLEAN, data_size \in BOOLEAN :
          \E r \in {preprocess_normalize_window(preprocess, normalized_data,
                                                data_size)} :
             api' = Api("preprocess_normalize_window",
                        [normalized_data |-> normalized_data,
                         data_size |-> data_size],
                        r.ret,
                        [normalized_data |-> r.normalized_data,
                         data_size |-> r.data_size])
    /\ UNCHANGED <<agent_loader, preprocess, infer, runtime_state, build, verify_ctx, actuator,
                 hist>>
    /\ UNCHANGED hotswap_vars

PreprocessGetStats ==
    /\ \E ptr \in {AllPointers, NoPointers} :
          \E r \in {preprocess_get_stats(preprocess, ptr)} :
             api' = Api("preprocess_get_stats", ptr, r.ret, r.out)
    /\ UNCHANGED <<agent_loader, preprocess, infer, runtime_state, build, verify_ctx, actuator,
                 hist>>
    /\ UNCHANGED hotswap_vars

PreprocessIsWindowReady ==
    /\ api' = Api("preprocess_is_window_ready", <<>>, EDGEPLUG_OK,
                  Written(preprocess_is_window_ready(preprocess)))
    /\ UNCHANGED <<agent_loader, preprocess, infer, runtime_state, build, verify_ctx, actuator,
                 hist>>
    /\ UNCHANGED hotswap_vars

PreprocessReset ==
    /\ \E r \in {preprocess_reset(preprocess)} :
          /\ preprocess' = r.p
          /\ api' = Api("preprocess_reset", <<>>, r.ret, <<>>)
    /\ hist' = Restarted(hist)
    /\ UNCHANGED <<agent_loader, infer, runtime_state, build, verify_ctx, actuator>>
    /\ UNCHANGED hotswap_vars

InitPreprocess ==
    /\ HotswapPowerUp
    /\ AppPowerUp
    /\ build = "second"

\* the preprocessor with small windows and varying samples
NextPreprocess ==
    \/ PreprocessInit(WindowSizes)
    \/ PreprocessAddSample(Samples, MaxSamples)
    \/ PreprocessNormalizeWindow
    \/ PreprocessGetStats
    \/ PreprocessIsWindowReady
    \/ PreprocessReset

SpecPreprocess == InitPreprocess /\ [][NextPreprocess]_vars

\* the preprocessor with windows at the limits of the range, fed a steady
\* voltage
NextWindow ==
    \/ PreprocessInit(BoundaryWindowSizes)
    \/ PreprocessAddSample(SteadySamples, MAX_WINDOW_SIZE + MaxExtraSamples)
    \/ PreprocessIsWindowReady
    \/ PreprocessReset

SpecWindow == InitPreprocess /\ [][NextWindow]_vars

(***************************************************************************)
(* Properties of the preprocessor                                          *)
(***************************************************************************)
\* C16: after init or reset, is_ready() is false after each of the first
\* W - 1 add_sample calls, true after the W-th, and stays true after every
\* further add_sample until the next reset or init: the window is reported
\* ready exactly when at least W samples were added since then.
C16_ReadyFromWthSample ==
    /\ preprocess_is_window_ready(preprocess)
          = (hist.since_reset >= preprocess.window_size)
    /\ api.op = "preprocess_is_window_ready"
          => api.out = Written(hist.since_reset >= preprocess.window_size)

\* is_ready() reports true one sample after a window of the largest size
\* has filled
C16_Witness ==
    /\ preprocess.window_size = MAX_WINDOW_SIZE
    /\ hist.since_reset = MAX_WINDOW_SIZE + 1
    /\ api.op = "preprocess_is_window_ready"
    /\ api.out = Written(TRUE)

\* the state after feeding the samples of s in order
RECURSIVE Feed(_, _)
Feed(p, s) ==
    IF s = <<>> THEN p
    ELSE Feed(preprocess_add_sample(p, s[1]).p, Tail(s))

\* the sample sequences fed after a reset
SampleRuns == UNION {[1..n -> {Sample(0), Sample(100)}] : n \in 1..MaxWindow}

\* C17: reset() clears both the window and the filter state: for any sample
\* sequence s, the window contents and the normalize output obtained by
\* feeding s after reset() equal those obtained by feeding s to a freshly
\* initialized preprocessor with the same window size.
C17_ResetEqualsFreshInit ==
    \A s \in SampleRuns :
       LET after_reset == Feed(preprocess_reset(preprocess).p, s)
           fresh == Feed(preprocess_init(PreprocessStatics,
                                         preprocess.window_size).p, s)
       IN /\ after_reset.window_buffer = fresh.window_buffer
          /\ preprocess_normalize_window(after_reset, TRUE, TRUE)
                = preprocess_normalize_window(fresh, TRUE, TRUE)

\* C18: the first sample after init initializes the filter state to that
\* sample's voltage, so once W samples of one constant voltage have been
\* fed, the window holds W values equal to that voltage and normalize emits
\* W zeros.
C18_ConstantInputFillsFlatWindow ==
    (hist.constant /\ hist.since_reset = preprocess.window_size)
       => LET n == preprocess.window_size
          IN /\ Window(preprocess, n) = [i \in 1..n |-> hist.first * TENTHS]
             /\ preprocess_normalize_window(preprocess, TRUE, TRUE)
                   = [ret |-> EDGEPLUG_OK,
                      normalized_data |-> Written([i \in 1..n |-> 0]),
                      data_size |-> Written(n)]

InitStep == api'.op = "preprocess_init"

AddStep == api'.op = "preprocess_add_sample" /\ api'.ret = EDGEPLUG_OK

\* C19: preprocess_init accepts W exactly when 1 <= W <= 256; a rejected W
\* leaves the configured window size, the index and the full flag unchanged;
\* with W = 1 the window is ready after every sample, and with W = 1 or
\* W = 256 it is ready exactly from the W-th sample on.
C19_InitAcceptsOneTo256 ==
    [][/\ InitStep =>
            /\ (api'.ret = EDGEPLUG_OK) = (1 <= api'.arg /\ api'.arg <= 256)
            /\ api'.ret = EDGEPLUG_OK =>
                  /\ preprocess'.window_size = api'.arg
                  /\ ~preprocess'.window_full
            /\ api'.ret # EDGEPLUG_OK =>
                  /\ preprocess'.window_size = preprocess.window_size
                  /\ preprocess'.window_index = preprocess.window_index
                  /\ preprocess'.window_full = preprocess.window_full
       /\ (AddStep /\ preprocess.window_size \in {1, 256}) =>
            /\ preprocess.window_size = 1 => preprocess'.window_full
            /\ preprocess'.window_full
                  = (hist'.since_reset >= preprocess.window_size)]_vars

\* init with W = 257 is rejected and leaves a filled window of 256 samples
\* as it was
C19_Witness ==
    /\ api.op = "preprocess_init"
    /\ api.arg = 257
    /\ api.ret = EDGEPLUG_ERROR_INVALID_PARAM
    /\ preprocess.window_size = 256
    /\ preprocess.window_full
    /\ hist.since_reset = 256

\* C20: while the window has not filled since the last init or reset,
\* normalize and window_stats return an error and store nothing through any
\* of their output parameters.
C20_NotReadyWritesNothing ==
    [][(~preprocess.window_full
        /\ api'.op \in {"preprocess_normalize_window", "preprocess_get_stats"})
          => /\ api'.ret # EDGEPLUG_OK
             /\ api'.op = "preprocess_normalize_window"
                   => api'.out = [normalized_data |-> Unwritten,
                                  data_size |-> Unwritten]
             /\ api'.op = "preprocess_get_stats" => api'.out = NoStats]_vars

\* window_stats is refused, with all four pointers valid, while a window of
\* four holds three samples
C20_Witness ==
    /\ ~preprocess.window_full
    /\ preprocess.window_size = 4
    /\ hist.since_reset = 3
    /\ api.op = "preprocess_get_stats"
    /\ api.arg = AllPointers
    /\ api.ret = EDGEPLUG_ERROR_INVALID_PARAM
    /\ api.out = NoStats

(***************************************************************************)
(* Agent loader (agent_loader.c)                                           *)
(***************************************************************************)
\* cbor_read_byte: the byte at the offset, if the offset is inside the data
cbor_read_byte(parser) ==
    IF parser.offset >= parser.size
    THEN [ok |-> FALSE, byte |-> 0, parser |-> parser]
    ELSE [ok |-> TRUE, byte |-> BufAt(parser.data, parser.offset),
          parser |-> [parser EXCEPT !.offset = @ + 1]]

HeaderFailed(parser) ==
    [ok |-> FALSE, major_type |-> 0, value |-> 0, parser |-> parser]

\* the one-byte argument of a header (additional info 24)
header_uint8(p1, major_type, second) ==
    IF ~second.ok THEN HeaderFailed(p1)
    ELSE [ok |-> TRUE, major_type |-> major_type,
          value |-> second.byte, parser |-> second.parser]

\* the header whose initial byte has been read
header_of(parser, first) ==
    LET major_type == (first.byte \div 32) % 8
        additional_info == first.byte % 32
        p1 == first.parser
        at(k) == BufAt(p1.data, p1.offset + k)
    IN IF ~first.ok THEN HeaderFailed(parser)
       ELSE IF additional_info <= 23
       THEN [ok |-> TRUE, major_type |-> major_type,
             value |-> additional_info, parser |-> p1]
       ELSE IF additional_info = 24
       THEN header_uint8(p1, major_type, cbor_read_byte(p1))
       ELSE IF additional_info = 25
       THEN IF p1.offset + 1 >= p1.size THEN HeaderFailed(p1)
            ELSE [ok |-> TRUE, major_type |-> major_type,
                  value |-> at(0) * 256 + at(1),
                  parser |-> [p1 EXCEPT !.offset = @ + 2]]
       ELSE IF additional_info = 26
       THEN IF p1.offset + 3 >= p1.size THEN HeaderFailed(p1)
            ELSE [ok |-> TRUE, major_type |-> major_type,
                  value |-> at(0) * 16777216 + at(1) * 65536
                            + at(2) * 256 + at(3),
                  parser |-> [p1 EXCEPT !.offset = @ + 4]]
       ELSE HeaderFailed(p1)

\* cbor_parse_header: major type (top 3 bits) and the value the additional
\* info (low 5 bits) carries or announces
cbor_parse_header(parser) == header_of(parser, cbor_read_byte(parser))

\* the loop of agent_loader_load over the map entries.  The loop bound is
\* the variable the headers of the entries are parsed into, so each entry
\* replaces it by the length its value declares.  The result says whether
\* the loop ran to its end and whether it marked the components found.
RECURSIVE parse_entries(_, _, _, _)
\* the rest of one iteration once the header of the value has been parsed:
\* skip the value, mark the component found
entry_value(val, i, found) ==
    IF ~val.ok THEN [ok |-> FALSE, found |-> found]
    ELSE parse_entries([val.parser EXCEPT !.offset = @ + val.value],
                       i + 1, val.value, TRUE)

\* the rest of one iteration once the header of the key has been parsed:
\* the key must be a text string and is skipped
entry_key(key, i, found) ==
    IF ~key.ok \/ key.major_type # 3
    THEN [ok |-> FALSE, found |-> found]
    ELSE entry_value(
             cbor_parse_header([key.parser EXCEPT !.offset = @ + key.value]),
             i, found)

parse_entries(parser, i, value, found) ==
    IF ~(i < value) THEN [ok |-> TRUE, found |-> found]
    ELSE entry_key(cbor_parse_header(parser), i, found)

\* XOR of every byte of a buffer with one byte
XorBuf(buf, byte) == [k \in 1..Len(buf) |-> [b |-> Xor8(buf[k].b, byte), n |-> buf[k].n]]

\* calculate_hash as defined second in the file (lines 316-323): the first
\* 64 bytes of the data XOR 0xAA, zero-padded to 64 bytes
calculate_hash(data, data_size) ==
    LET n == IF data_size < 64 THEN data_size ELSE 64
    IN RCat(XorBuf(RTake(data, n), 170), Run(0, 64 - n))

\* The file defines calculate_hash twice.  The definition first in the file
\* (lines 200-243) runs a compression loop over w[0..63] of which only
\* w[0..15] are assigned, so the digest it yields, and with it the outcome
\* of the comparison with manifest->hash, is indeterminate.  These are the
\* outcomes of that comparison ("the hashes are equal") per build.
HashOutcomes(b, req) ==
    IF b = "second"
    THEN {calculate_hash(req.data, req.size) = req.manifest.hash}
    ELSE BOOLEAN

AllZero(buf) == \A k \in 1..Len(buf) : buf[k].b = 0

\* the variant of verify_signature that does not ask for a public key
verify_signature_keyless(data_null, signature, public_key_null) ==
    IF data_null THEN FALSE
    ELSE /\ ~AllZero(RDrop(signature, 32))
         /\ ~AllZero(RTake(signature, 32))

\* verify_signature: rejects NULL arguments, then checks only that neither
\* half of the signature is all zero
verify_signature(data_null, signature, public_key_null) ==
    IF data_null \/ public_key_null THEN FALSE
    ELSE /\ ~AllZero(RDrop(signature, 32))
         /\ ~AllZero(RTake(signature, 32))

LoadFailed(ld, status) == [ld |-> ld, ret |-> status]

\* the end of agent_loader_load: the components must have been found; the
\* data is copied to the slot that is active and the manifest is kept
load_store(ld, req, entries) ==
    IF ~entries.ok \/ ~entries.found
    THEN LoadFailed(ld, EDGEPLUG_ERROR_AGENT_LOAD)
    ELSE [ld |-> [ld EXCEPT
                    !.agent_slot_a =
                        IF ld.slot_a_active
                        THEN Memcpy(@, req.data, req.size) ELSE @,
                    !.agent_slot_b =
                        IF ld.slot_a_active
                        THEN @ ELSE Memcpy(@, req.data, req.size),
                    !.current_manifest = req.manifest],
          ret |-> EDGEPLUG_OK]

\* agent_loader_load from the map header on: the data must start with a map
load_envelope(ld, req, map) ==
    IF ~map.ok \/ map.major_type # 5
    THEN LoadFailed(ld, EDGEPLUG_ERROR_AGENT_LOAD)
    ELSE load_store(ld, req, parse_entries(map.parser, 0, map.value, FALSE))

\* hash_equal is the outcome of memcmp(calculated_hash, manifest->hash) == 0
agent_loader_load(ld, hash_equal, req) ==
    IF req.data_null \/ req.manifest_null \/ req.size = 0
    THEN LoadFailed(ld, EDGEPLUG_ERROR_INVALID_PARAM)
    ELSE IF req.size > MAX_AGENT_SIZE
    THEN LoadFailed(ld, EDGEPLUG_ERROR_MEMORY)
    ELSE IF req.manifest.flash_size > MAX_AGENT_SIZE
    THEN LoadFailed(ld, EDGEPLUG_ERROR_INVALID_PARAM)
    ELSE IF ~hash_equal
    THEN LoadFailed(ld, EDGEPLUG_ERROR_AGENT_LOAD)
    \* the public key passed is NULL
    ELSE IF ~verify_signature(FALSE, req.manifest.signature, TRUE)
    THEN LoadFailed(ld, EDGEPLUG_ERROR_AGENT_LOAD)
    ELSE load_envelope(ld, req,
             cbor_parse_header([data |-> req.data, size |-> req.size,
                                offset |-> 0]))

\* the end of agent_loader_hotswap, r being what agent_loader_load returned
hotswap_switch(r) ==
    IF r.ret # EDGEPLUG_OK THEN r
    ELSE [ld |-> [r.ld EXCEPT !.slot_a_active = ~@], ret |-> EDGEPLUG_OK]

agent_loader_hotswap(ld, hash_equal, req) ==
    hotswap_switch(agent_loader_load(ld, hash_equal, req))

\* the pointer returned, the bytes it points to and the value stored in *size
agent_loader_get_active_agent(ld, size) ==
    [ptr |-> IF ld.slot_a_active THEN "agent_slot_a" ELSE "agent_slot_b",
     region |-> IF ld.slot_a_active THEN ld.agent_slot_a ELSE ld.agent_slot_b,
     size |-> IF size THEN Written(ld.current_manifest.flash_size)
              ELSE Unwritten]

(***************************************************************************)
(* Inference module (infer.c)                                              *)
(*                                                                         *)
(* model_buffer holds the bytes infer_load_model copied; the header and    *)
(* the layer descriptors are read from it through the structs              *)
(* cmsis_nn_model_header_t (8 words) and cmsis_nn_layer_t (9 words), words *)
(* little-endian.  The scratch buffer holds int8 values.                   *)
(***************************************************************************)
\* header->magic expected by cmsis_nn_inference, 0x4E4E5343
CMSIS_NN_MAGIC == 1313755971

CMSIS_NN_LAYER_DENSE == 2

CMSIS_NN_LAYER_ACTIVATION == 3

\* sizeof(cmsis_nn_model_header_t) and sizeof(cmsis_nn_layer_t)
SIZEOF_MODEL_HEADER == 32

SIZEOF_LAYER == 36

\* the value of a byte read as int8_t, and the byte of an int8_t
ToInt8(b) == IF b >= 128 THEN b - 256 ELSE b

ToByte(v) == (v + 256) % 256

\* a uint32_t and an int32_t read from a byte buffer at an offset
ReadU32(buf, off) ==
    BufAt(buf, off) + 256 * BufAt(buf, off + 1)
    + 65536 * BufAt(buf, off + 2) + 16777216 * BufAt(buf, off + 3)

ReadI32(buf, off) ==
    BufAt(buf, off) + 256 * BufAt(buf, off + 1)
    + 65536 * BufAt(buf, off + 2) + 16777216 * ToInt8(BufAt(buf, off + 3))

\* the fields of the header that cmsis_nn_inference reads
ModelHeader(model_buffer) ==
    [magic |-> ReadU32(model_buffer, 0),
     input_size |-> ReadU32(model_buffer, 8),
     output_size |-> ReadU32(model_buffer, 12),
     layer_count |-> ReadU32(model_buffer, 16)]

\* layers[i]
ModelLayer(model_buffer, i) ==
    [type |-> ReadU32(model_buffer, SIZEOF_MODEL_HEADER + SIZEOF_LAYER * i),
     input_size |->
         ReadU32(model_buffer, SIZEOF_MODEL_HEADER + SIZEOF_LAYER * i + 4),
     output_size |->
         ReadU32(model_buffer, SIZEOF_MODEL_HEADER + SIZEOF_LAYER * i + 8),
     weights_offset |->
         ReadU32(model_buffer, SIZEOF_MODEL_HEADER + SIZEOF_LAYER * i + 12),
     bias_offset |->
         ReadU32(model_buffer, SIZEOF_MODEL_HEADER + SIZEOF_LAYER * i + 16),
     activation_type |->
         ReadU32(model_buffer, SIZEOF_MODEL_HEADER + SIZEOF_LAYER * i + 20)]

infer_init(inf) ==
    [inf EXCEPT !.inference_buffer = Memset(0, INFERENCE_BUFFER_SIZE),
                !.model_buffer = Memset(0, MAX_MODEL_SIZE),
                !.model_size = 0, !.model_loaded = FALSE,
                !.inference_count = 0, !.total_inference_time = 0,
                !.max_inference_time = 0]

\* infer_load_model: image = [null, data, size]
infer_load_model(inf, image) ==
    IF image.null \/ image.size = 0
    THEN [inf |-> inf, ret |-> EDGEPLUG_ERROR_INVALID_PARAM]
    ELSE IF image.size > MAX_MODEL_SIZE
    THEN [inf |-> inf, ret |-> EDGEPLUG_ERROR_MEMORY]
    ELSE [inf |-> [inf EXCEPT
                      !.model_buffer = Memcpy(@, image.data, image.size),
                      !.model_size = image.size,
                      !.model_loaded = TRUE],
          ret |-> EDGEPLUG_OK]

\* the readings in a build without a hardware timer
SoftwareClock == [start |-> [hw |-> FALSE, t |-> 0],
                  end |-> [hw |-> FALSE, t |-> 0]]

\* get_system_time_ms of infer.c.  A reading is what a hardware timer shows
\* ([hw |-> TRUE, t |-> milliseconds]) or, in a build without one, the
\* software timer, which returns its count and increments it.
infer_time(inf, reading) ==
    IF reading.hw THEN [now |-> reading.t, inf |-> inf]
    ELSE [now |-> inf.software_timer,
          inf |-> [inf EXCEPT !.software_timer = @ + 1]]

\* C integer division, truncating toward zero
TruncDiv(a, b) == IF a >= 0 THEN a \div b ELSE 0 - ((0 - a) \div b)

ClampInt8(v) == IF v > 127 THEN 127 ELSE IF v < -128 THEN -128 ELSE v

\* memcpy of a sequence of values into a buffer at an offset
RECURSIVE StoreSeq(_, _, _)
StoreSeq(buf, at, vals) ==
    IF vals = <<>> THEN buf
    ELSE StoreSeq(BufStore(buf, at, vals[1]), at + 1, Tail(vals))

\* the dense layer: outputs are stored one by one into the scratch buffer
\* the inputs are read from; weights and bias are read from the model bytes
RECURSIVE dense_inner(_, _, _, _, _, _, _)
dense_inner(model_buffer, buf, layer, in_at, out_idx, in_idx, acc) ==
    IF in_idx >= layer.input_size THEN acc
    ELSE dense_inner(model_buffer, buf, layer, in_at, out_idx, in_idx + 1,
                     acc + BufAt(buf, in_at + in_idx)
                           * ToInt8(BufAt(model_buffer,
                                          layer.weights_offset
                                          + in_idx * layer.output_size
                                          + out_idx)))

\* the int8 stored for an accumulator: ReLU if asked for, then acc / 64
dense_output(layer, acc) ==
    ClampInt8(TruncDiv(IF layer.activation_type = 1 /\ acc < 0 THEN 0 ELSE acc,
                       64))

RECURSIVE dense_layer(_, _, _, _, _, _)
dense_layer(model_buffer, buf, layer, in_at, out_at, out_idx) ==
    IF out_idx >= layer.output_size THEN buf
    ELSE dense_layer(
             model_buffer,
             BufStore(buf, out_at + out_idx,
                 dense_output(layer,
                     dense_inner(model_buffer, buf, layer, in_at, out_idx, 0,
                                 ReadI32(model_buffer,
                                         layer.bias_offset + 4 * out_idx)))),
             layer, in_at, out_at, out_idx + 1)

activation_output(layer, val) ==
    IF layer.activation_type = 1 THEN (IF val < 0 THEN 0 ELSE val)
    ELSE IF layer.activation_type = 2 THEN (IF val > 0 THEN 127 ELSE -128)
    ELSE val

RECURSIVE activation_layer(_, _, _, _, _)
activation_layer(buf, layer, in_at, out_at, i) ==
    IF i >= layer.input_size THEN buf
    ELSE activation_layer(
             BufStore(buf, out_at + i,
                      activation_output(layer, BufAt(buf, in_at + i))),
             layer, in_at, out_at, i + 1)

\* the layer loop: in_at and out_at are the offsets of layer_input and
\* layer_output in the inference buffer, swapped after every layer
RECURSIVE run_layers(_, _, _, _, _, _)
run_layer(model_buffer, buf, layer_count, i, in_at, out_at, layer) ==
    IF layer.type = CMSIS_NN_LAYER_DENSE
    THEN run_layers(model_buffer,
                    dense_layer(model_buffer, buf, layer, in_at, out_at, 0),
                    layer_count, i + 1, out_at, in_at)
    ELSE IF layer.type = CMSIS_NN_LAYER_ACTIVATION
    THEN run_layers(model_buffer,
                    activation_layer(buf, layer, in_at, out_at, 0),
                    layer_count, i + 1, out_at, in_at)
    ELSE [ret |-> EDGEPLUG_ERROR_INFERENCE, buf |-> buf, in_at |-> in_at]

run_layers(model_buffer, buf, layer_count, i, in_at, out_at) ==
    IF i >= layer_count
    THEN [ret |-> EDGEPLUG_OK, buf |-> buf, in_at |-> in_at]
    ELSE run_layer(model_buffer, buf, layer_count, i, in_at, out_at,
                   ModelLayer(model_buffer, i))

\* the end of cmsis_nn_inference: the output is copied out after the loop
inference_output(header, r) ==
    IF r.ret # EDGEPLUG_OK
    THEN [ret |-> r.ret, buf |-> r.buf, output |-> Unwritten,
          output_size |-> Unwritten]
    ELSE [ret |-> EDGEPLUG_OK, buf |-> r.buf,
          output |-> Written([k \in 1..header.output_size |->
                                BufAt(r.buf, r.in_at + k - 1)]),
          output_size |-> Written(header.output_size)]

inference_checked(inf, input_size, header) ==
    IF header.magic # CMSIS_NN_MAGIC
    THEN [ret |-> EDGEPLUG_ERROR_INFERENCE, buf |-> inf.inference_buffer,
          output |-> Unwritten, output_size |-> Unwritten]
    ELSE IF input_size # header.input_size
    THEN [ret |-> EDGEPLUG_ERROR_INFERENCE, buf |-> inf.inference_buffer,
          output |-> Unwritten, output_size |-> Unwritten]
    ELSE inference_output(header,
             run_layers(inf.model_buffer, inf.inference_buffer,
                        header.layer_count, 0, 0, header.input_size))

\* cmsis_nn_inference on the inference buffer, which holds the input
cmsis_nn_inference(inf, input_size) ==
    IF ~inf.model_loaded
    THEN [ret |-> EDGEPLUG_ERROR_INVALID_PARAM, buf |-> inf.inference_buffer,
          output |-> Unwritten, output_size |-> Unwritten]
    ELSE inference_checked(inf, input_size, ModelHeader(inf.model_buffer))

\* the end of infer_int8: statistics, then the budget check
infer_finish(start_time, r, ended) ==
    [inf |-> [ended.inf EXCEPT
                !.inference_buffer = r.buf,
                !.inference_count = @ + 1,
                !.total_inference_time = @ + (ended.now - start_time),
                !.max_inference_time =
                    IF ended.now - start_time > @
                    THEN ended.now - start_time ELSE @],
     ret |-> IF ended.now - start_time > 1 THEN EDGEPLUG_ERROR_INFERENCE
             ELSE r.ret,
     output |-> r.output, output_size |-> r.output_size]

infer_ran(start_time, r, inf, clock) ==
    infer_finish(start_time, r, infer_time(inf, clock.end))

infer_started(started, arg, clock) ==
    infer_ran(started.now,
              cmsis_nn_inference(
                  [started.inf EXCEPT
                      !.inference_buffer = StoreSeq(@, 0, arg.input_data)],
                  arg.input_size),
              started.inf, clock)

\* infer_int8: arg = [input_data, input_size] and the pointers that are
\* NULL; clock = the two readings of the timer
infer_int8(inf, arg, clock) ==
    IF arg.input_null \/ arg.output_null \/ arg.output_size_null
       \/ ~inf.model_loaded
    THEN [inf |-> inf, ret |-> EDGEPLUG_ERROR_INVALID_PARAM,
          output |-> Unwritten, output_size |-> Unwritten]
    ELSE IF arg.input_size > INFERENCE_BUFFER_SIZE
    THEN [inf |-> inf, ret |-> EDGEPLUG_ERROR_MEMORY,
          output |-> Unwritten, output_size |-> Unwritten]
    ELSE infer_started(infer_time(inf, clock.start), arg, clock)

\* infer_get_stats with all three pointers given
infer_get_stats(inf) ==
    [count |-> inf.inference_count,
     avg_time |-> IF inf.inference_count > 0
                  THEN inf.total_inference_time \div inf.inference_count
                  ELSE 0,
     max_time |-> inf.max_inference_time]

infer_reset_stats(inf) ==
    [inf EXCEPT !.inference_count = 0, !.total_inference_time = 0,
                !.max_inference_time = 0]

\* infer_set_quantization; a scale is a fraction <<numerator, denominator>>
\* q = [in_scale, in_zero_point, out_scale, out_zero_point]
infer_set_quantization(inf, q) ==
    [inf EXCEPT !.input_scale = q.in_scale,
                !.input_zero_point = q.in_zero_point,
                !.output_scale = q.out_scale,
                !.output_zero_point = q.out_zero_point]

\* one element of infer_quantize_fp32 for the float x = x[1] / x[2]:
\* scaled = x / input_scale + input_zero_point, then (int32_t)(scaled + 0.5f),
\* which truncates toward zero, then the clamp.  The float operations are
\* exact for scales that are powers of two and x a small multiple of one.
quantize_value(inf, x) ==
    ClampInt8(TruncDiv(2 * x[1] * inf.input_scale[2]
                       + (2 * inf.input_zero_point + 1)
                         * x[2] * inf.input_scale[1],
                       2 * x[2] * inf.input_scale[1]))

\* infer_quantize_fp32: arg = [fp32_data, data_size, int8_data_null, ...]
infer_quantize_fp32(inf, arg) ==
    IF arg.fp32_data_null \/ arg.int8_data_null \/ arg.data_size = 0
    THEN [ret |-> EDGEPLUG_ERROR_INVALID_PARAM, int8_data |-> Unwritten]
    ELSE [ret |-> EDGEPLUG_OK,
          int8_data |-> Written([i \in 1..arg.data_size |->
                                   quantize_value(inf, arg.fp32_data[i])])]

\* one element of infer_dequantize_int8, as a fraction
dequantize_value(inf, q) ==
    <<(q - inf.output_zero_point) * inf.output_scale[1], inf.output_scale[2]>>

infer_dequantize_int8(inf, arg) ==
    IF arg.int8_data_null \/ arg.fp32_data_null \/ arg.data_size = 0
    THEN [ret |-> EDGEPLUG_ERROR_INVALID_PARAM, fp32_data |-> Unwritten]
    ELSE [ret |-> EDGEPLUG_OK,
          fp32_data |-> Written([i \in 1..arg.data_size |->
                                   dequantize_value(inf, arg.int8_data[i])])]

(***************************************************************************)
(* Actuator module (actuator.c)                                            *)
(*                                                                         *)
(* A float is a fraction <<numerator, denominator>>.  A clock is the two   *)
(* readings of the timer that a write takes, as in the inference module.   *)
(***************************************************************************)
MAX_OPCUA_NODES == 16

MAX_MODBUS_REGS == 32

MAX_GPIO_PINS == 8

EDGEPLUG_ERROR_ACTUATION == -5

actuator_init(act) ==
    [act EXCEPT !.opcua_config = ZeroOpcuaConfig,
                !.modbus_config = [ZeroModbusConfig EXCEPT !.slave_id = 1],
                !.gpio_config = [ZeroGpioConfig EXCEPT !.initialized = TRUE],
                !.actuation_count = 0, !.total_actuation_time = 0,
                !.max_actuation_time = 0]

\* get_system_time_ms of actuator.c
actuator_time(act, reading) ==
    IF reading.hw THEN [now |-> reading.t, act |-> act]
    ELSE [now |-> act.software_timer,
          act |-> [act EXCEPT !.software_timer = @ + 1]]

\* the first index at which a table holds a key, 0 if it holds it nowhere
RECURSIVE table_find(_, _, _)
table_find(keys, key, i) ==
    IF i > Len(keys) THEN 0
    ELSE IF keys[i] = key THEN i
    ELSE table_find(keys, key, i + 1)

\* the find-or-add loop of the three write functions: the value of a key
\* found at index i is replaced; a key not found is appended while the table
\* has room and dropped when it is full
table_put(keys, values, key, value, capacity, i) ==
    IF i # 0
    THEN [keys |-> keys, values |-> [values EXCEPT ![i] = value]]
    ELSE IF Len(keys) < capacity
    THEN [keys |-> Append(keys, key), values |-> Append(values, value)]
    ELSE [keys |-> keys, values |-> values]

\* the end of a write: statistics, then the budget check
actuator_finish(start_time, ended) ==
    [act |-> [ended.act EXCEPT
                !.actuation_count = @ + 1,
                !.total_actuation_time = @ + (ended.now - start_time),
                !.max_actuation_time =
                    IF ended.now - start_time > @
                    THEN ended.now - start_time ELSE @],
     ret |-> IF ended.now - start_time > 10 THEN EDGEPLUG_ERROR_ACTUATION
             ELSE EDGEPLUG_OK]

opcua_stored(act, t) ==
    [act EXCEPT !.opcua_config =
        [node_ids |-> t.keys, values |-> t.values, node_count |-> Len(t.keys),
         connected |-> TRUE]]

opcua_started(started, node_id, value, clock) ==
    actuator_finish(started.now,
        actuator_time(
            opcua_stored(started.act,
                table_put(started.act.opcua_config.node_ids,
                          started.act.opcua_config.values, node_id, value,
                          MAX_OPCUA_NODES,
                          table_find(started.act.opcua_config.node_ids,
                                     node_id, 1))),
            clock.end))

actuator_write_opcua(act, node_id, value, clock) ==
    IF node_id = 0 THEN [act |-> act, ret |-> EDGEPLUG_ERROR_INVALID_PARAM]
    ELSE opcua_started(actuator_time(act, clock.start), node_id, value, clock)

\* the variant of crc16_shift that shifts without the polynomial
RECURSIVE crc16_shift_plain(_, _)
crc16_shift_plain(crc, j) ==
    IF j >= 8 THEN crc ELSE crc16_shift_plain(crc \div 2, j + 1)

\* the eight shifts of the CRC-16 loop for one byte
RECURSIVE crc16_shift(_, _)
crc16_shift(crc, j) ==
    IF j >= 8 THEN crc
    ELSE IF crc % 2 = 1 THEN crc16_shift(Xor16(crc \div 2, 40961), j + 1)
    ELSE crc16_shift(crc \div 2, j + 1)

\* the CRC-16 loop of actuator_write_modbus over the first frame_size bytes
RECURSIVE crc16_frame(_, _, _)
crc16_frame(crc, modbus_frame, i) ==
    IF i > Len(modbus_frame) THEN crc
    ELSE crc16_frame(crc16_shift(Xor16(crc, modbus_frame[i]), 0),
                     modbus_frame, i + 1)

\* the six bytes of the frame before the CRC
modbus_request(slave_id, address, value) ==
    <<slave_id, 6, (address \div 256) % 256, address % 256,
      (value \div 256) % 256, value % 256>>

\* the frame with the CRC appended, low byte first
modbus_sealed(request, crc) == request \o <<crc % 256, (crc \div 256) % 256>>

modbus_frame_of(slave_id, address, value) ==
    modbus_sealed(modbus_request(slave_id, address, value),
                  crc16_frame(65535, modbus_request(slave_id, address, value),
                              1))

modbus_stored(act, t) ==
    [act EXCEPT !.modbus_config =
        [register_addresses |-> t.keys, register_values |-> t.values,
         register_count |-> Len(t.keys), connected |-> TRUE,
         slave_id |-> @.slave_id]]

modbus_started(started, address, value, clock) ==
    actuator_finish(started.now,
        actuator_time(
            modbus_stored(started.act,
                table_put(started.act.modbus_config.register_addresses,
                          started.act.modbus_config.register_values, address,
                          value, MAX_MODBUS_REGS,
                          table_find(
                              started.act.modbus_config.register_addresses,
                              address, 1))),
            clock.end))

\* the statics and status that a register write leaves, and the frame it
\* built for the line
modbus_sent(r, modbus_frame) ==
    [act |-> r.act, ret |-> r.ret, modbus_frame |-> modbus_frame]

actuator_write_modbus(act, address, value, clock) ==
    IF address = 0
    THEN [act |-> act, ret |-> EDGEPLUG_ERROR_INVALID_PARAM,
          modbus_frame |-> <<>>]
    ELSE modbus_sent(
             modbus_started(actuator_time(act, clock.start), address, value,
                            clock),
             modbus_frame_of(act.modbus_config.slave_id, address, value))

gpio_stored(act, t) ==
    [act EXCEPT !.gpio_config =
        [pin_numbers |-> t.keys, pin_states |-> t.values,
         pin_count |-> Len(t.keys), initialized |-> @.initialized]]

gpio_started(started, pin, state, clock) ==
    actuator_finish(started.now,
        actuator_time(
            gpio_stored(started.act,
                table_put(started.act.gpio_config.pin_numbers,
                          started.act.gpio_config.pin_states, pin, state,
                          MAX_GPIO_PINS,
                          table_find(started.act.gpio_config.pin_numbers,
                                     pin, 1))),
            clock.end))

actuator_write_gpio(act, pin, state, clock) ==
    IF pin >= MAX_GPIO_PINS \/ state > 1
    THEN [act |-> act, ret |-> EDGEPLUG_ERROR_INVALID_PARAM]
    ELSE IF ~act.gpio_config.initialized
    THEN [act |-> act, ret |-> EDGEPLUG_ERROR_ACTUATION]
    ELSE gpio_started(actuator_time(act, clock.start), pin, state, clock)

\* (uint16_t) of a float in the range of uint16_t
ToUint16(value) == value[1] \div value[2]

\* the result of a sub-operation of actuator_execute_command: the statics
\* and status it leaves, and the write it is appended to those called before
dispatched(r, name, w) ==
    [act |-> w.act, ret |-> w.ret, calls |-> Append(r.calls, name)]

\* the variant of execute_gpio that writes the line after a failed write
execute_gpio_always(r, cmd, clocks) ==
    IF cmd.gpio_pin < MAX_GPIO_PINS
    THEN dispatched(r, "gpio",
             actuator_write_gpio(r.act, cmd.gpio_pin, cmd.gpio_state,
                                 clocks.gpio))
    ELSE r

\* actuator_execute_command after the register write, if any, returned r
execute_gpio(r, cmd, clocks) ==
    IF r.ret # EDGEPLUG_OK THEN r
    ELSE IF cmd.gpio_pin < MAX_GPIO_PINS
    THEN dispatched(r, "gpio",
             actuator_write_gpio(r.act, cmd.gpio_pin, cmd.gpio_state,
                                 clocks.gpio))
    ELSE r

\* actuator_execute_command after the node write, if any, returned r
execute_modbus(r, cmd, clocks) ==
    IF r.ret # EDGEPLUG_OK THEN r
    ELSE execute_gpio(
             IF cmd.modbus_addr # 0
             THEN dispatched(r, "modbus",
                      actuator_write_modbus(r.act, cmd.modbus_addr,
                                            ToUint16(cmd.value),
                                            clocks.modbus))
             ELSE r,
             cmd, clocks)

execute_opcua(r, cmd, clocks) ==
    execute_modbus(
        IF cmd.opcua_node # 0
        THEN dispatched(r, "opcua",
                 actuator_write_opcua(r.act, cmd.opcua_node, cmd.value,
                                      clocks.opcua))
        ELSE r,
        cmd, clocks)

\* actuator_execute_command: arg = [null, cmd]; clocks = the clock of each
\* of the three writes
actuator_execute_command(act, arg, clocks) ==
    IF arg.null
    THEN [act |-> act, ret |-> EDGEPLUG_ERROR_INVALID_PARAM, calls |-> <<>>]
    ELSE execute_opcua([act |-> act, ret |-> EDGEPLUG_OK, calls |-> <<>>],
                       arg.cmd, clocks)

\* actuator_get_stats with all three pointers given
actuator_get_stats(act) ==
    [count |-> act.actuation_count,
     avg_time |-> IF act.actuation_count > 0
                  THEN act.total_actuation_time \div act.actuation_count
                  ELSE 0,
     max_time |-> act.max_actuation_time]

actuator_reset_stats(act) ==
    [act EXCEPT !.actuation_count = 0, !.total_actuation_time = 0,
                !.max_actuation_time = 0]

(***************************************************************************)
(* Runtime facade (edgeplug_runtime.c).  An operation acts on the statics  *)
(* of all five modules: st = [rt, pre, inf, ld, act].                      *)
(***************************************************************************)
App == [rt |-> runtime_state, pre |-> preprocess, inf |-> infer,
        ld |-> agent_loader, act |-> actuator]

Config(window_size, enable_hotswap) ==
    [window_size |-> window_size, sample_rate |-> 1000,
     inference_interval |-> 100, enable_safety_guard |-> TRUE,
     enable_hotswap |-> enable_hotswap]

\* an edgeplug_actuation_cmd_t of all-zero bytes; value is a quotient
\* <<numerator, denominator>>
ZeroCommand ==
    [opcua_node |-> 0, modbus_addr |-> 0, gpio_pin |-> 0, gpio_state |-> 0,
     value |-> <<0, 1>>]

edgeplug_init(st, config_null, config) ==
    IF config_null THEN [st |-> st, ret |-> EDGEPLUG_ERROR_INVALID_PARAM]
    ELSE IF config.window_size = 0 \/ config.sample_rate = 0
    THEN [st |-> st, ret |-> EDGEPLUG_ERROR_INVALID_PARAM]
    ELSE LET rt == [config |-> config, initialized |-> TRUE,
                    sensor_count |-> 0, inference_count |-> 0,
                    safety_trips |-> 0]
             pre == preprocess_init(st.pre, config.window_size)
         IN IF pre.ret # EDGEPLUG_OK
            THEN [st |-> [st EXCEPT !.rt = rt], ret |-> pre.ret]
            ELSE [st |-> [st EXCEPT !.rt = rt, !.pre = pre.p,
                                    !.inf = infer_init(st.inf),
                                    !.act = actuator_init(st.act)],
                  ret |-> EDGEPLUG_OK]

\* the statics and the status after a call of the loader that returned r
loader_returned(st, r) == [st |-> [st EXCEPT !.ld = r.ld], ret |-> r.ret]

edgeplug_load_agent(st, hash_equal, req) ==
    IF ~st.rt.initialized
    THEN [st |-> st, ret |-> EDGEPLUG_ERROR_INVALID_PARAM]
    ELSE IF req.data_null \/ req.manifest_null \/ req.size = 0
    THEN [st |-> st, ret |-> EDGEPLUG_ERROR_INVALID_PARAM]
    ELSE loader_returned(st, agent_loader_load(st.ld, hash_equal, req))

edgeplug_hotswap_agent(st, hash_equal, req) ==
    IF ~st.rt.initialized
    THEN [st |-> st, ret |-> EDGEPLUG_ERROR_INVALID_PARAM]
    ELSE IF ~st.rt.config.enable_hotswap
    THEN [st |-> st, ret |-> EDGEPLUG_ERROR_INVALID_PARAM]
    ELSE IF req.data_null \/ req.manifest_null \/ req.size = 0
    THEN [st |-> st, ret |-> EDGEPLUG_ERROR_INVALID_PARAM]
    ELSE loader_returned(st, agent_loader_hotswap(st.ld, hash_equal, req))

\* the command derived from the inference output: the sum of the output
\* bytes decides gpio_state, their average is the value
command_of(output) ==
    IF Len(output) > 0
    THEN [opcua_node |-> 1001, modbus_addr |-> 1001, gpio_pin |-> 1,
          gpio_state |-> IF SumOf(output) > 0 THEN 1 ELSE 0,
          value |-> <<SumOf(output), Len(output)>>]
    ELSE ZeroCommand

\* edgeplug_process_sensors after infer_int8 has returned
tick_inferred(st1, inference) ==
    IF inference.ret # EDGEPLUG_OK
    THEN [st |-> [st1 EXCEPT !.inf = inference.inf],
          ret |-> inference.ret, cmd |-> Unwritten]
    ELSE [st |-> [st1 EXCEPT !.inf = inference.inf,
                             !.rt.inference_count = @ + 1],
          ret |-> EDGEPLUG_OK,
          cmd |-> Written(command_of(inference.output[1]))]

\* edgeplug_process_sensors after preprocess_normalize_window has returned
tick_normalized(st1, norm) ==
    tick_inferred(st1,
        infer_int8(st1.inf,
                   [input_data |-> norm.normalized_data[1],
                    input_size |-> norm.data_size[1],
                    input_null |-> FALSE, output_null |-> FALSE,
                    output_size_null |-> FALSE],
                   SoftwareClock))

\* edgeplug_process_sensors after the sample has been added and counted
tick_added(st1) ==
    IF ~preprocess_is_window_ready(st1.pre)
    THEN [st |-> st1, ret |-> EDGEPLUG_OK, cmd |-> Written(ZeroCommand)]
    ELSE tick_normalized(st1, preprocess_normalize_window(st1.pre, TRUE, TRUE))

\* edgeplug_process_sensors after preprocess_add_sample has returned
tick_sampled(st, added) ==
    IF added.ret # EDGEPLUG_OK
    THEN [st |-> st, ret |-> added.ret, cmd |-> Unwritten]
    ELSE tick_added([st EXCEPT !.pre = added.p, !.rt.sensor_count = @ + 1])

edgeplug_process_sensors(st, sensor_data, actuation_cmd) ==
    IF ~st.rt.initialized \/ sensor_data.null \/ ~actuation_cmd
    THEN [st |-> st, ret |-> EDGEPLUG_ERROR_INVALID_PARAM, cmd |-> Unwritten]
    ELSE tick_sampled(st, preprocess_add_sample(st.pre, sensor_data))

edgeplug_deinit(st) ==
    IF ~st.rt.initialized
    THEN [st |-> st, ret |-> EDGEPLUG_ERROR_INVALID_PARAM]
    ELSE [st |-> [st EXCEPT !.rt = RuntimeStatics], ret |-> EDGEPLUG_OK]

\* the statics and the status after actuator_execute_command returned r
actuator_returned(st, r) == [st |-> [st EXCEPT !.act = r.act], ret |-> r.ret]

edgeplug_execute_actuation(st, arg, clocks) ==
    IF ~st.rt.initialized \/ arg.null
    THEN [st |-> st, ret |-> EDGEPLUG_ERROR_INVALID_PARAM]
    ELSE actuator_returned(st, actuator_execute_command(st.act, arg, clocks))

\* edgeplug_get_stats with all three pointers given: the average inference
\* time, the memory figure and the safety trips
edgeplug_get_stats(st) ==
    IF ~st.rt.initialized
    THEN [ret |-> EDGEPLUG_ERROR_INVALID_PARAM, out |-> Unwritten]
    ELSE [ret |-> EDGEPLUG_OK,
          out |-> Written(
              [inference_time_ms |-> infer_get_stats(st.inf).avg_time,
               memory_usage_bytes |->
                   16 * 1024 + 1 * 1024 + 1 * 1024 + 512 + 1 * 1024,
               safety_trips |-> st.rt.safety_trips])]

edgeplug_reset_stats(st) ==
    IF ~st.rt.initialized
    THEN [st |-> st, ret |-> EDGEPLUG_ERROR_INVALID_PARAM]
    ELSE [st |-> [st EXCEPT !.rt.sensor_count = 0,
                            !.rt.inference_count = 0,
                            !.rt.safety_trips = 0,
                            !.inf = infer_reset_stats(@),
                            !.act = actuator_reset_stats(@)],
          ret |-> EDGEPLUG_OK]

edgeplug_is_initialized(rt) == rt.initialized

(***************************************************************************)
(* Inputs of the loader and the facade                                     *)
(***************************************************************************)
\* {"model": h'01', "prep": h'02', "act": h'03'}
EnvelopeA ==
    Bytes(<<163, 101, 109, 111, 100, 101, 108, 65, 1,
            100, 112, 114, 101, 112, 65, 2,
            99, 97, 99, 116, 65, 3>>)

\* the same keys, each with a byte string of four bytes
EnvelopeB ==
    Bytes(<<163, 101, 109, 111, 100, 101, 108, 68, 1, 1, 1, 1,
            100, 112, 114, 101, 112, 68, 2, 2, 2, 2,
            99, 97, 99, 116, 68, 3, 3, 3, 3>>)

\* the text keys "model", "prep" and "act"
KEY_MODEL == <<109, 111, 100, 101, 108>>

KEY_PREP == <<112, 114, 101, 112>>

KEY_ACT == <<97, 99, 116>>

\* the entries of a map: each key as a text string, with the byte string
\* h'01' as its value
RECURSIVE EntryBytes(_)
EntryBytes(keys) ==
    IF keys = <<>> THEN <<>>
    ELSE <<96 + Len(keys[1])>> \o keys[1] \o <<65, 1>> \o EntryBytes(Tail(keys))

\* the envelope that is a map of these keys, in this order
EnvelopeOf(keys) == Bytes(<<160 + Len(keys)>> \o EntryBytes(keys))

\* the mandatory keys in two orders, one of them missing, one of them twice
KeyLists ==
    { <<KEY_MODEL, KEY_PREP, KEY_ACT>>, <<KEY_ACT, KEY_MODEL, KEY_PREP>>,
      <<KEY_MODEL, KEY_PREP>>, <<KEY_PREP, KEY_ACT>>, <<KEY_MODEL, KEY_ACT>>,
      <<KEY_MODEL, KEY_PREP, KEY_ACT, KEY_ACT>>,
      <<KEY_MODEL, KEY_MODEL, KEY_PREP, KEY_ACT>> }

\* mock_agent_data of the runtime test
MockAgent ==
    Bytes(<<161, 99, 109, 111, 100, 101, 108, 65,
            99, 112, 114, 101, 112, 65,
            99, 97, 99, 116, 65>>)

\* a byte string, not a map
NotAMap == Bytes(<<65, 1>>)

\* a map of one entry (empty key, value 0) followed by zero bytes, n bytes
\* in all
PaddedEnvelope(n) == RCat(Bytes(<<161, 96, 0>>), Run(0, n - 3))

\* a map of one entry whose value declares one byte, with no byte after the
\* header of the value
ShortValue == Bytes(<<161, 101>> \o KEY_MODEL \o <<65>>)

\* a map of one entry whose value declares 255 bytes, one of them present
LongValue == Bytes(<<161, 101>> \o KEY_MODEL \o <<88, 255, 1>>)

\* a map of one entry whose key declares 255 bytes, five of them present
LongKey == Bytes(<<161, 120, 255>> \o KEY_MODEL)

\* a map that declares three entries, one of them present
MissingEntries == Bytes(<<163, 101>> \o KEY_MODEL \o <<65, 1>>)

\* envelopes whose declared lengths or entry count run past their end
TruncatedEnvelopes == {ShortValue, LongValue, LongKey, MissingEntries}

\* 64 signature bytes neither half of which is zero
SIG_NONZERO == Run(171, 64)

LoaderManifest(flash_size, signature, hash) ==
    [version |-> 1, agent_id |-> 4660, flash_size |-> flash_size,
     sram_size |-> 1024, signature |-> signature, hash |-> hash]

\* the manifest that matches the data: its length, its hash as the loader
\* computes it, a signature of valid structure
MatchingManifest(data) ==
    LoaderManifest(RLen(data), SIG_NONZERO, calculate_hash(data, RLen(data)))

LoaderRequest(data, manifest) ==
    [data |-> data, size |-> RLen(data), manifest |-> manifest,
     data_null |-> FALSE, manifest_null |-> FALSE]

MatchingRequest(data) == LoaderRequest(data, MatchingManifest(data))

\* mock_manifest of the runtime test: signature AA BB CC DD 00 .., hash
\* 11 22 33 44 00 ..
MockRequest ==
    LoaderRequest(MockAgent,
        LoaderManifest(RLen(MockAgent),
                       RCat(Bytes(<<170, 187, 204, 221>>), Run(0, 60)),
                       RCat(Bytes(<<17, 34, 51, 68>>), Run(0, 60))))

\* well-formed envelopes with the keys model, prep and act, matching hash
\* and a signature of valid structure
EnvelopeRequests == {MatchingRequest(EnvelopeA), MatchingRequest(EnvelopeB)}

ExactFitRequest == MatchingRequest(PaddedEnvelope(MaxAgentSize))

OverFitRequest == MatchingRequest(PaddedEnvelope(MaxAgentSize + 1))

LoaderRequests ==
    EnvelopeRequests
    \cup { MatchingRequest(EnvelopeOf(keys)) : keys \in KeyLists }
    \cup { MatchingRequest(data) : data \in TruncatedEnvelopes }
    \cup { ExactFitRequest,
           OverFitRequest,
           MatchingRequest(PaddedEnvelope(MAX_AGENT_SIZE)),
           MatchingRequest(PaddedEnvelope(MAX_AGENT_SIZE + 1)),
           MatchingRequest(NotAMap),
           MockRequest,
           \* flash_size one more than the data presented
           LoaderRequest(EnvelopeA,
               [MatchingManifest(EnvelopeA) EXCEPT !.flash_size = @ + 1]),
           \* flash_size beyond the budget
           LoaderRequest(EnvelopeA,
               [MatchingManifest(EnvelopeA) EXCEPT
                   !.flash_size = MAX_AGENT_SIZE + 1]),
           \* hash of other data
           LoaderRequest(EnvelopeA, MatchingManifest(EnvelopeB)),
           \* all-zero signature
           LoaderRequest(EnvelopeA,
               [MatchingManifest(EnvelopeA) EXCEPT !.signature = Run(0, 64)]),
           [MatchingRequest(EnvelopeA) EXCEPT !.data_null = TRUE],
           [MatchingRequest(EnvelopeA) EXCEPT !.manifest_null = TRUE],
           [MatchingRequest(EnvelopeA) EXCEPT !.size = 0] }

\* configurations passed to edgeplug_init; null says the pointer is NULL
ConfigArg(config) == [null |-> FALSE, config |-> config]

NullConfigArg == [null |-> TRUE, config |-> ZeroConfig]

LoaderConfigs ==
    {ConfigArg(Config(2, TRUE)), ConfigArg(Config(2, FALSE)), NullConfigArg}

TickConfigs ==
    {ConfigArg(Config(w, TRUE)) : w \in WindowSizes}
    \cup {ConfigArg([Config(2, TRUE) EXCEPT !.sample_rate = 0]), NullConfigArg}

(***************************************************************************)
(* Actions: one call of a loader or facade function each                   *)
(***************************************************************************)
StoreApp(st) ==
    /\ runtime_state' = st.rt
    /\ preprocess' = st.pre
    /\ infer' = st.inf
    /\ agent_loader' = st.ld
    /\ actuator' = st.act

AgentLoaderLoad(requests) ==
    /\ \E req \in requests :
          \E hash_equal \in HashOutcomes(build, req) :
             \E r \in {agent_loader_load(agent_loader, hash_equal, req)} :
                /\ agent_loader' = r.ld
                /\ api' = Api("agent_loader_load", req, r.ret, <<>>)
    /\ UNCHANGED <<preprocess, infer, runtime_state, build, verify_ctx, actuator, hist>>
    /\ UNCHANGED hotswap_vars

AgentLoaderHotswap(requests) ==
    /\ \E req \in requests :
          \E hash_equal \in HashOutcomes(build, req) :
             \E r \in {agent_loader_hotswap(agent_loader, hash_equal, req)} :
                /\ agent_loader' = r.ld
                /\ api' = Api("agent_loader_hotswap", req, r.ret, <<>>)
    /\ UNCHANGED <<preprocess, infer, runtime_state, build, verify_ctx, actuator, hist>>
    /\ UNCHANGED hotswap_vars

AgentLoaderGetActiveAgent ==
    /\ \E size \in BOOLEAN :
          api' = Api("agent_loader_get_active_agent", size, EDGEPLUG_OK,
                     agent_loader_get_active_agent(agent_loader, size))
    /\ UNCHANGED <<agent_loader, preprocess, infer, runtime_state, build, verify_ctx, actuator,
                 hist>>
    /\ UNCHANGED hotswap_vars

EdgeplugInit(configs) ==
    /\ \E arg \in configs :
          \E r \in {edgeplug_init(App, arg.null, arg.config)} :
             /\ StoreApp(r.st)
             /\ api' = Api("edgeplug_init", arg, r.ret, <<>>)
             /\ hist' = IF r.ret = EDGEPLUG_OK
                        THEN [Restarted(hist) EXCEPT !.up = TRUE] ELSE hist
    /\ UNCHANGED <<build, verify_ctx>>
    /\ UNCHANGED hotswap_vars

EdgeplugLoadAgent(requests) ==
    /\ \E req \in requests :
          \E hash_equal \in HashOutcomes(build, req) :
             \E r \in {edgeplug_load_agent(App, hash_equal, req)} :
                /\ StoreApp(r.st)
                /\ api' = Api("edgeplug_load_agent", req, r.ret, <<>>)
    /\ UNCHANGED <<build, verify_ctx, hist>>
    /\ UNCHANGED hotswap_vars

EdgeplugHotswapAgent(requests) ==
    /\ \E req \in requests :
          \E hash_equal \in HashOutcomes(build, req) :
             \E r \in {edgeplug_hotswap_agent(App, hash_equal, req)} :
                /\ StoreApp(r.st)
                /\ api' = Api("edgeplug_hotswap_agent", req, r.ret, <<>>)
    /\ UNCHANGED <<build, verify_ctx, hist>>
    /\ UNCHANGED hotswap_vars

EdgeplugProcessSensors(samples, cap) ==
    /\ hist.fed < cap
    /\ \E sensor_data \in samples, actuation_cmd \in BOOLEAN :
          \E r \in {edgeplug_process_sensors(App, sensor_data, actuation_cmd)} :
             /\ StoreApp(r.st)
             /\ api' = Api("edgeplug_process_sensors",
                           [sensor_data |-> sensor_data,
                            actuation_cmd |-> actuation_cmd],
                           r.ret, r.cmd)
             /\ hist' = IF r.st.rt.sensor_count # runtime_state.sensor_count
                        THEN Added(hist, sensor_data.voltage) ELSE hist
    /\ UNCHANGED <<build, verify_ctx>>
    /\ UNCHANGED hotswap_vars

EdgeplugDeinit ==
    /\ \E r \in {edgeplug_deinit(App)} :
          /\ StoreApp(r.st)
          /\ api' = Api("edgeplug_deinit", <<>>, r.ret, <<>>)
          /\ hist' = IF r.ret = EDGEPLUG_OK THEN [hist EXCEPT !.up = FALSE]
                     ELSE hist
    /\ UNCHANGED <<build, verify_ctx>>
    /\ UNCHANGED hotswap_vars

\* the program built with either definition of calculate_hash
InitApp ==
    /\ HotswapPowerUp
    /\ AppPowerUp
    /\ build \in {"first", "second"}

\* the loader, called directly and through the facade
NextLoader ==
    \/ AgentLoaderLoad(LoaderRequests)
    \/ AgentLoaderHotswap(LoaderRequests)
    \/ AgentLoaderGetActiveAgent
    \/ EdgeplugInit(LoaderConfigs)
    \/ EdgeplugLoadAgent(LoaderRequests)
    \/ EdgeplugHotswapAgent(LoaderRequests)
    \/ EdgeplugDeinit

SpecLoader == InitApp /\ [][NextLoader]_vars

\* the facade fed with samples
NextTick ==
    \/ EdgeplugInit(TickConfigs)
    \/ EdgeplugLoadAgent(EnvelopeRequests)
    \/ EdgeplugProcessSensors(Samples, MaxSamples)
    \/ EdgeplugDeinit

SpecTick == InitApp /\ [][NextTick]_vars

(***************************************************************************)
(* Properties of the loader and the facade                                 *)
(***************************************************************************)
LoaderSlots(ld) == <<ld.agent_slot_a, ld.agent_slot_b>>

\* C11: the loader accepts an image of exactly
\* AGENT_SLOT_SIZE - sizeof(metadata) = 14220 bytes and rejects an image one
\* byte larger with EDGEPLUG_ERROR_MEMORY, leaving every byte of both slots
\* as it was.
C11_LoaderSizeBoundary ==
    [][api'.op = "agent_loader_load" =>
          /\ api'.arg = ExactFitRequest => api'.ret = EDGEPLUG_OK
          /\ api'.arg = OverFitRequest =>
                /\ api'.ret = EDGEPLUG_ERROR_MEMORY
                /\ LoaderSlots(agent_loader') = LoaderSlots(agent_loader)]_vars

\* C12: an update request whose manifest.flash_size differs from the length
\* of the bytes presented is rejected and no slot is modified.
C12_FlashSizeMismatchRejected ==
    [][(UpdateReturns /\ ~call'.req.data_null /\ ~call'.req.manifest_null
            /\ call'.req.manifest.flash_size # call'.req.size) =>
          /\ call'.ret # EDGEPLUG_OK
          /\ flash' = flash]_vars

\* C14: after a successful edgeplug_init, edgeplug_load_agent returns
\* EDGEPLUG_OK for every image that is a well-formed envelope map with the
\* keys model, prep and act, whose hash equals manifest.hash and whose
\* signature is valid.
C14_WellFormedAgentLoads ==
    [][(api'.op = "edgeplug_load_agent" /\ runtime_state.initialized
            /\ api'.arg \in EnvelopeRequests) =>
          api'.ret = EDGEPLUG_OK]_vars

\* a call of edgeplug_process_sensors with valid pointers on a runtime whose
\* edgeplug_init configured the window
TickStep ==
    /\ api'.op = "edgeplug_process_sensors"
    /\ runtime_state.initialized
    /\ runtime_state.config.window_size = preprocess.window_size
    /\ ~api'.arg.sensor_data.null
    /\ api'.arg.actuation_cmd

\* C15: after edgeplug_init with window size W each of the first W - 1 calls
\* of edgeplug_process_sensors returns EDGEPLUG_OK with the all-zero command,
\* and the W-th call and every later call returns EDGEPLUG_OK with a command
\* derived from the inference output.  (The call does not consult the loader,
\* so a loaded agent makes no difference to it.)
C15_TickCommandsFromWthSample ==
    [][TickStep =>
          /\ api'.ret = EDGEPLUG_OK
          /\ hist'.since_reset < preprocess.window_size
                => api'.out = Written(ZeroCommand)
          /\ hist'.since_reset >= preprocess.window_size
                => /\ api'.out # Unwritten
                   /\ runtime_state'.inference_count
                         = runtime_state.inference_count + 1]_vars

(***************************************************************************)
(* The inference module called directly                                    *)
(***************************************************************************)
\* the bytes of a uint32_t or int32_t, little-endian
LE32(v) ==
    <<v % 256, (v \div 256) % 256, (v \div 65536) % 256,
      (v \div 16777216) % 256>>

\* a buffer of words
RECURSIVE Words(_)
Words(ws) ==
    IF ws = <<>> THEN <<>> ELSE RCat(Bytes(LE32(ws[1])), Words(Tail(ws)))

\* a cmsis_nn_model_header_t
HeaderBytes(magic, input_size, output_size, layer_count) ==
    Words(<<magic, 1, input_size, output_size, layer_count, 0, 0, 0>>)

\* a cmsis_nn_layer_t
LayerBytes(type, in_size, out_size, w_offset, b_offset, activation) ==
    Words(<<type, in_size, out_size, w_offset, b_offset, activation, 0, 0, 0>>)

ModelImage(data) == [null |-> FALSE, data |-> data, size |-> RLen(data)]

\* weights 64 * identity and bias <<0, 64>>: output = <<x1, x2 + 1>>
DenseWeights == RCat(Bytes(<<64, 0, 0, 64>>), Words(<<0, 64>>))

\* one dense layer of 2 inputs and 2 outputs; the parameters are the header
\* and descriptor fields that the images below vary
OneLayerImage(magic, in_size, out_size, layer_count, type, w_offset) ==
    ModelImage(RCat(HeaderBytes(magic, in_size, out_size, layer_count),
                    RCat(LayerBytes(type, 2, 2, w_offset, 72, 0),
                         DenseWeights)))

DenseModel == OneLayerImage(CMSIS_NN_MAGIC, 2, 2, 1, CMSIS_NN_LAYER_DENSE, 68)

\* a dense layer with weights -64 * identity, then a ReLU activation layer
ReluModel ==
    ModelImage(
        RCat(HeaderBytes(CMSIS_NN_MAGIC, 2, 2, 2),
             RCat(LayerBytes(CMSIS_NN_LAYER_DENSE, 2, 2, 104, 108, 0),
                  RCat(LayerBytes(CMSIS_NN_LAYER_ACTIVATION, 2, 2, 0, 0, 1),
                       RCat(Bytes(<<192, 0, 0, 192>>), Words(<<0, -64>>))))))

BadMagicModel == OneLayerImage(0, 2, 2, 1, CMSIS_NN_LAYER_DENSE, 68)

\* layer type 1 (convolution) is not implemented
UnsupportedLayerModel == OneLayerImage(CMSIS_NN_MAGIC, 2, 2, 1, 1, 68)

ZeroInputSizeModel == OneLayerImage(CMSIS_NN_MAGIC, 0, 2, 1, CMSIS_NN_LAYER_DENSE, 68)

ZeroOutputSizeModel == OneLayerImage(CMSIS_NN_MAGIC, 2, 0, 1, CMSIS_NN_LAYER_DENSE, 68)

\* three descriptors declared, one present
MissingLayersModel == OneLayerImage(CMSIS_NN_MAGIC, 2, 2, 3, CMSIS_NN_LAYER_DENSE, 68)

\* the four weights start at the last byte of the image
WeightsBeyondModel == OneLayerImage(CMSIS_NN_MAGIC, 2, 2, 1, CMSIS_NN_LAYER_DENSE, 79)

\* the images that the header or a descriptor makes invalid
InvalidModels ==
    {BadMagicModel, ZeroInputSizeModel, ZeroOutputSizeModel,
     MissingLayersModel, WeightsBeyondModel}

ModelImages ==
    {DenseModel, ReluModel, UnsupportedLayerModel} \cup InvalidModels
    \cup { [DenseModel EXCEPT !.null = TRUE],
           [DenseModel EXCEPT !.size = 0],
           [null |-> FALSE, data |-> Run(0, MAX_MODEL_SIZE + 1),
            size |-> MAX_MODEL_SIZE + 1] }

InferArg(input_data) ==
    [input_data |-> input_data, input_size |-> Len(input_data),
     input_null |-> FALSE, output_null |-> FALSE, output_size_null |-> FALSE]

InferArgs ==
    { InferArg(<<64, -64>>), InferArg(<<1, 2, 3>>),
      [InferArg(<<64, -64>>) EXCEPT !.output_null = TRUE],
      [InferArg(<<>>) EXCEPT !.input_size = INFERENCE_BUFFER_SIZE + 1] }

\* the readings of a hardware timer at the start and the end of a call
HardwareClock(start, elapsed) ==
    [start |-> [hw |-> TRUE, t |-> start],
     end |-> [hw |-> TRUE, t |-> start + elapsed]]

\* the longest duration of an inference that is considered
MaxElapsed == 2

InferClocks == {SoftwareClock, HardwareClock(5, 0), HardwareClock(5, MaxElapsed)}

\* the number of inferences between two resets of the statistics, and the
\* number of readings of the software timer
MaxInferences == 2

MaxTimerReads == 2

\* quantization parameters: the defaults, equal scales, and equal scales
\* with zero points
QuantizationParams ==
    { [in_scale |-> <<1, 64>>, in_zero_point |-> 0,
       out_scale |-> <<64, 1>>, out_zero_point |-> 0],
      [in_scale |-> <<1, 64>>, in_zero_point |-> 0,
       out_scale |-> <<1, 64>>, out_zero_point |-> 0],
      [in_scale |-> <<1, 2>>, in_zero_point |-> 3,
       out_scale |-> <<1, 2>>, out_zero_point |-> 3] }

\* floats n / 128 from -2 to 2
QuantizeInputs == {<<n, 128>> : n \in {-256, -129, -3, -1, 0, 1, 3, 129, 254, 256}}

QuantizeArg(fp32_data) ==
    [fp32_data |-> fp32_data, data_size |-> Len(fp32_data),
     fp32_data_null |-> FALSE, int8_data_null |-> FALSE]

QuantizeArgs ==
    {QuantizeArg(<<x>>) : x \in QuantizeInputs}
    \cup { [QuantizeArg(<<>>) EXCEPT !.fp32_data_null = TRUE, !.data_size = 1],
           QuantizeArg(<<>>) }

DequantizeArg(int8_data) ==
    [int8_data |-> int8_data, data_size |-> Len(int8_data),
     int8_data_null |-> FALSE, fp32_data_null |-> FALSE]

DequantizeArgs ==
    {DequantizeArg(<<q>>) : q \in {-128, -1, 0, 1, 127}}
    \cup { [DequantizeArg(<<0>>) EXCEPT !.fp32_data_null = TRUE] }

InferUnchanged ==
    /\ UNCHANGED <<agent_loader, preprocess, runtime_state, build, verify_ctx, actuator,
                   hist>>
    /\ UNCHANGED hotswap_vars

InferInit ==
    /\ infer' = infer_init(infer)
    /\ api' = Api("infer_init", <<>>, EDGEPLUG_OK, <<>>)
    /\ InferUnchanged

InferLoadModel ==
    /\ \E image \in ModelImages :
          \E r \in {infer_load_model(infer, image)} :
             /\ infer' = r.inf
             /\ api' = Api("infer_load_model", image, r.ret, <<>>)
    /\ InferUnchanged

InferInt8 ==
    /\ infer.inference_count < MaxInferences
    /\ infer.software_timer < MaxTimerReads
    /\ \E arg \in InferArgs, clock \in InferClocks :
          \E r \in {infer_int8(infer, arg, clock)} :
             /\ infer' = r.inf
             /\ api' = Api("infer_int8", [arg |-> arg, clock |-> clock], r.ret,
                           [output |-> r.output,
                            output_size |-> r.output_size])
    /\ InferUnchanged

InferGetStats ==
    /\ api' = Api("infer_get_stats", <<>>, EDGEPLUG_OK, infer_get_stats(infer))
    /\ UNCHANGED infer
    /\ InferUnchanged

InferResetStats ==
    /\ infer' = infer_reset_stats(infer)
    /\ api' = Api("infer_reset_stats", <<>>, EDGEPLUG_OK, <<>>)
    /\ InferUnchanged

InferSetQuantization ==
    /\ \E q \in QuantizationParams :
          /\ infer' = infer_set_quantization(infer, q)
          /\ api' = Api("infer_set_quantization", q, EDGEPLUG_OK, <<>>)
    /\ InferUnchanged

InferQuantizeFp32 ==
    /\ \E arg \in QuantizeArgs :
          \E r \in {infer_quantize_fp32(infer, arg)} :
             api' = Api("infer_quantize_fp32", arg, r.ret, r.int8_data)
    /\ UNCHANGED infer
    /\ InferUnchanged

InferDequantizeInt8 ==
    /\ \E arg \in DequantizeArgs :
          \E r \in {infer_dequantize_int8(infer, arg)} :
             api' = Api("infer_dequantize_int8", arg, r.ret, r.fp32_data)
    /\ UNCHANGED infer
    /\ InferUnchanged

NextInfer ==
    \/ InferInit
    \/ InferLoadModel
    \/ InferInt8
    \/ InferGetStats
    \/ InferResetStats

SpecInfer == InitApp /\ [][NextInfer]_vars

\* the quantization functions
NextQuantize ==
    \/ InferInit
    \/ InferSetQuantization
    \/ InferQuantizeFp32
    \/ InferDequantizeInt8

SpecQuantize == InitApp /\ [][NextQuantize]_vars

(***************************************************************************)
(* Properties of the inference module                                      *)
(***************************************************************************)
\* the call of infer_int8 that a step completed ran the model to its end
\* and measured more than the budget of 1 ms
BudgetBreached ==
    /\ api'.op = "infer_int8"
    /\ api'.ret = EDGEPLUG_ERROR_INFERENCE
    /\ api'.out.output # Unwritten
    /\ api'.arg.clock.start.hw
    /\ api'.arg.clock.end.t - api'.arg.clock.start.t > 1

\* C21: when infer_int8 returns the time-budget error because the measured
\* duration exceeds the budget, the inference counter that infer_get_stats
\* reports is the same as before the call.
C21_BudgetErrorLeavesCounter ==
    [][BudgetBreached
       => infer_get_stats(infer').count = infer_get_stats(infer).count]_vars

\* C22: whenever infer_int8 returns an error (time budget breached, bad
\* model magic, input length different from header.input_size, unsupported
\* layer type, or no model loaded) the caller's output buffer and output_size
\* are left unmodified.
C22_ErrorLeavesOutputUnwritten ==
    (api.op = "infer_int8" /\ api.ret # EDGEPLUG_OK)
    => (api.out.output = Unwritten /\ api.out.output_size = Unwritten)

\* a dense layer whose weights or bias lie partly outside the first size
\* bytes
LayerBeyond(layer, size) ==
    /\ layer.type = CMSIS_NN_LAYER_DENSE
    /\ \/ layer.weights_offset + layer.input_size * layer.output_size > size
       \/ layer.bias_offset + 4 * layer.output_size > size

\* what makes an image of at least a header invalid: the magic, a size of 0,
\* descriptors that do not fit, weights or bias outside the image
HeaderInvalid(data, size, header) ==
    \/ header.magic # CMSIS_NN_MAGIC
    \/ header.input_size = 0
    \/ header.output_size = 0
    \/ SIZEOF_MODEL_HEADER + SIZEOF_LAYER * header.layer_count > size
    \/ \E i \in 0..(header.layer_count - 1) :
          LayerBeyond(ModelLayer(data, i), size)

ImageInvalid(image) ==
    /\ ~image.null
    /\ image.size >= SIZEOF_MODEL_HEADER
    /\ HeaderInvalid(image.data, image.size, ModelHeader(image.data))

\* C23: infer_load_model returns an error, and leaves the model-loaded flag
\* and the stored model unchanged, for every buffer whose header magic is not
\* 0x4E4E5343, whose input_size or output_size is 0, whose layer_count
\* descriptors do not fit in the buffer, or whose declared weights or bias
\* ranges extend beyond the buffer.
C23_LoadModelValidates ==
    [][(api'.op = "infer_load_model" /\ ImageInvalid(api'.arg))
       => /\ api'.ret # EDGEPLUG_OK
          /\ infer'.model_loaded = infer.model_loaded
          /\ infer'.model_buffer = infer.model_buffer
          /\ infer'.model_size = infer.model_size]_vars

\* x lies in [-128 * scale, 127 * scale], for fractions x and scale
InQuantizedRange(x, scale) ==
    /\ x[1] * scale[2] >= -128 * scale[1] * x[2]
    /\ x[1] * scale[2] <= 127 * scale[1] * x[2]

Abs(v) == IF v < 0 THEN 0 - v ELSE v

\* |y - x| <= scale, for fractions y, x and scale
WithinScale(y, x, scale) ==
    Abs(y[1] * x[2] - x[1] * y[2]) * scale[2] <= scale[1] * x[2] * y[2]

\* infer_dequantize_int8 applied to what infer_quantize_fp32 stored
RoundTrip(int8_data) ==
    infer_dequantize_int8(infer, DequantizeArg(int8_data)).fp32_data[1]

\* C29: with the module's quantization parameters, for every x in
\* [-128 * in_scale, 127 * in_scale], infer_dequantize_int8 of the result of
\* infer_quantize_fp32 of x is within in_scale of x.
C29_QuantizeRoundTrip ==
    (api.op = "infer_quantize_fp32" /\ api.ret = EDGEPLUG_OK)
    => \A i \in 1..api.arg.data_size :
          InQuantizedRange(api.arg.fp32_data[i], infer.input_scale)
          => WithinScale(RoundTrip(api.out[1])[i], api.arg.fp32_data[i],
                         infer.input_scale)

\* the round trip with scales made equal by infer_set_quantization
EqualScalesRoundTrip ==
    (api.op = "infer_quantize_fp32" /\ api.ret = EDGEPLUG_OK
     /\ infer.input_scale = infer.output_scale
     /\ infer.input_zero_point = infer.output_zero_point)
    => \A i \in 1..api.arg.data_size :
          InQuantizedRange(api.arg.fp32_data[i], infer.input_scale)
          => WithinScale(RoundTrip(api.out[1])[i], api.arg.fp32_data[i],
                         infer.input_scale)

\* the valid one-layer model maps <<64, -64>> to <<64, -63>>
DenseModelRuns ==
    /\ api.op = "infer_int8"
    /\ api.ret = EDGEPLUG_OK
    /\ api.out.output = Written(<<64, -63>>)

ReluModelRuns ==
    /\ api.op = "infer_int8"
    /\ api.ret = EDGEPLUG_OK
    /\ api.out.output = Written(<<0, 63>>)

(***************************************************************************)
(* The actuator module called directly                                     *)
(***************************************************************************)
Command(opcua_node, modbus_addr, gpio_pin, gpio_state, value) ==
    [opcua_node |-> opcua_node, modbus_addr |-> modbus_addr,
     gpio_pin |-> gpio_pin, gpio_state |-> gpio_state, value |-> value]

CommandArg(cmd) == [null |-> FALSE, cmd |-> cmd]

\* the command of the facade for a positive output, the same with a
\* gpio_state that is no level, a register write alone (pin 8 is no pin),
\* a node write alone, the all-zero command, and no command
ActuatorCommands ==
    { CommandArg(Command(1001, 1, 1, 1, <<3, 1>>)),
      CommandArg(Command(1001, 1, 1, 2, <<3, 1>>)),
      CommandArg(Command(0, 1, MAX_GPIO_PINS, 0, <<3, 1>>)),
      CommandArg(Command(1001, 0, MAX_GPIO_PINS, 0, <<3, 1>>)),
      CommandArg(ZeroCommand),
      [null |-> TRUE, cmd |-> ZeroCommand] }

\* the duration of a slow write, above the budget of 10 ms
SlowWrite == 11

SoftwareClocks ==
    [opcua |-> SoftwareClock, modbus |-> SoftwareClock, gpio |-> SoftwareClock]

\* hardware timers: every write fast, or one of the three slow
ActuatorClocks ==
    { SoftwareClocks,
      [opcua |-> HardwareClock(0, 0), modbus |-> HardwareClock(0, 0),
       gpio |-> HardwareClock(0, 0)],
      [opcua |-> HardwareClock(0, SlowWrite), modbus |-> HardwareClock(11, 0),
       gpio |-> HardwareClock(11, 0)],
      [opcua |-> HardwareClock(0, 0), modbus |-> HardwareClock(0, SlowWrite),
       gpio |-> HardwareClock(11, 0)],
      [opcua |-> HardwareClock(0, 0), modbus |-> HardwareClock(0, 0),
       gpio |-> HardwareClock(0, SlowWrite)] }

\* register writes: address and value
RegisterWrites == {<<1, 3>>, <<0, 3>>}

\* the number of writes between two resets of the statistics, and the number
\* of readings of the software timer
MaxActuations == 2

MaxActuatorTimerReads == 2

ActuatorUnchanged ==
    /\ UNCHANGED <<agent_loader, preprocess, infer, runtime_state, build, verify_ctx, hist>>
    /\ UNCHANGED hotswap_vars

ActuatorInit ==
    /\ actuator' = actuator_init(actuator)
    /\ api' = Api("actuator_init", <<>>, EDGEPLUG_OK, <<>>)
    /\ ActuatorUnchanged

ActuatorExecuteCommand ==
    /\ actuator.actuation_count < MaxActuations
    /\ actuator.software_timer < MaxActuatorTimerReads
    /\ \E arg \in ActuatorCommands, clocks \in ActuatorClocks :
          \E r \in {actuator_execute_command(actuator, arg, clocks)} :
             /\ actuator' = r.act
             /\ api' = Api("actuator_execute_command",
                           [arg |-> arg, clocks |-> clocks], r.ret, r.calls)
    /\ ActuatorUnchanged

ActuatorWriteModbus ==
    /\ actuator.actuation_count < MaxActuations
    /\ actuator.software_timer < MaxActuatorTimerReads
    /\ \E w \in RegisterWrites :
          \E r \in {actuator_write_modbus(actuator, w[1], w[2],
                                          SoftwareClock)} :
             /\ actuator' = r.act
             /\ api' = Api("actuator_write_modbus",
                           [address |-> w[1], value |-> w[2]], r.ret,
                           r.modbus_frame)
    /\ ActuatorUnchanged

ActuatorGetStats ==
    /\ api' = Api("actuator_get_stats", <<>>, EDGEPLUG_OK,
                  actuator_get_stats(actuator))
    /\ UNCHANGED actuator
    /\ ActuatorUnchanged

ActuatorResetStats ==
    /\ actuator' = actuator_reset_stats(actuator)
    /\ api' = Api("actuator_reset_stats", <<>>, EDGEPLUG_OK, <<>>)
    /\ ActuatorUnchanged

NextActuator ==
    \/ ActuatorInit
    \/ ActuatorExecuteCommand
    \/ ActuatorWriteModbus
    \/ ActuatorGetStats
    \/ ActuatorResetStats

SpecActuator == InitApp /\ [][NextActuator]_vars

(***************************************************************************)
(* Properties of the actuator module                                       *)
(***************************************************************************)
\* a step that completed actuator_execute_command with a command
Executed ==
    /\ api'.op = "actuator_execute_command"
    /\ ~api'.arg.arg.null

\* C24: in actuator_execute_command each sub-operation is skipped when its
\* target identifier is zero: opcua_node = 0 performs no node write,
\* modbus_addr = 0 no register write, gpio_pin = 0 no discrete line write; the
\* all-zero command changes no actuator state and no actuation counter.
C24_ZeroTargetSkips ==
    [][Executed
       => /\ api'.arg.arg.cmd.opcua_node = 0
             => \A i \in 1..Len(api'.out) : api'.out[i] # "opcua"
          /\ api'.arg.arg.cmd.modbus_addr = 0
             => \A i \in 1..Len(api'.out) : api'.out[i] # "modbus"
          /\ api'.arg.arg.cmd.gpio_pin = 0
             => \A i \in 1..Len(api'.out) : api'.out[i] # "gpio"
          /\ api'.arg.arg.cmd = ZeroCommand => actuator' = actuator]_vars

\* the sub-operations that a command addresses, in the order of dispatch
Addressed(cmd) ==
    (IF cmd.opcua_node # 0 THEN <<"opcua">> ELSE <<>>)
    \o (IF cmd.modbus_addr # 0 THEN <<"modbus">> ELSE <<>>)
    \o (IF cmd.gpio_pin < MAX_GPIO_PINS THEN <<"gpio">> ELSE <<>>)

\* the write function of a sub-operation, called on its own
WriteOf(name, act, cmd, clocks) ==
    IF name = "opcua"
    THEN actuator_write_opcua(act, cmd.opcua_node, cmd.value, clocks.opcua)
    ELSE IF name = "modbus"
    THEN actuator_write_modbus(act, cmd.modbus_addr, ToUint16(cmd.value),
                               clocks.modbus)
    ELSE actuator_write_gpio(act, cmd.gpio_pin, cmd.gpio_state, clocks.gpio)

\* the results of the write functions called one after the other
RECURSIVE Replayed(_, _, _, _)
ReplayedAfter(w, calls, cmd, clocks) ==
    <<w>> \o Replayed(w.act, calls, cmd, clocks)

Replayed(act, calls, cmd, clocks) ==
    IF calls = <<>> THEN <<>>
    ELSE ReplayedAfter(WriteOf(calls[1], act, cmd, clocks), Tail(calls), cmd,
                       clocks)

IsPrefix(s, t) == Len(s) <= Len(t) /\ s = SubSeq(t, 1, Len(s))

\* what C25 says of a call that dispatched calls, whose results are ws
FirstFailureAborts(calls, ws, cmd) ==
    /\ IsPrefix(calls, Addressed(cmd))
    /\ \A i \in 1..(Len(ws) - 1) : ws[i].ret = EDGEPLUG_OK
    /\ IF api'.ret = EDGEPLUG_OK
       THEN calls = Addressed(cmd)
            /\ \A i \in 1..Len(ws) : ws[i].ret = EDGEPLUG_OK
       ELSE calls # <<>> /\ ws[Len(ws)].ret = api'.ret
    /\ actuator' = IF calls = <<>> THEN actuator ELSE ws[Len(ws)].act

\* C25: actuator_execute_command dispatches the sub-operations in the fixed
\* order node write, register write, discrete line write; the first one that
\* fails aborts the command, its error is returned, no later sub-operation is
\* dispatched, and the effects of those already dispatched remain.
C25_FirstFailureAborts ==
    [][Executed
       => FirstFailureAborts(api'.out,
              Replayed(actuator, api'.out, api'.arg.arg.cmd,
                       api'.arg.clocks),
              api'.arg.arg.cmd)]_vars

\* a command with valid node and register targets and gpio_state 2 returned
\* EDGEPLUG_ERROR_INVALID_PARAM after the node and the register were recorded
C25_Witness ==
    /\ api.op = "actuator_execute_command"
    /\ api.arg.arg = CommandArg(Command(1001, 1, 1, 2, <<3, 1>>))
    /\ api.ret = EDGEPLUG_ERROR_INVALID_PARAM
    /\ api.out = <<"opcua", "modbus", "gpio">>
    /\ actuator.opcua_config.node_ids = <<1001>>
    /\ actuator.modbus_config.register_addresses = <<1>>
    /\ actuator.gpio_config.pin_numbers = <<>>
    /\ actuator.actuation_count = 2

\* a register write built the frame for slave 1, function 6, address 1 and
\* value 3
FrameOfClaim ==
    /\ api.op = "actuator_write_modbus"
    /\ api.ret = EDGEPLUG_OK
    /\ SubSeq(api.out, 1, 6) = <<1, 6, 0, 1, 0, 3>>

\* C26 as stated: the CRC-16 of the frame over the bytes
\* 01 06 00 01 00 03 is 0x980A, appended low byte first as 0x0A, 0x98.
C26_Crc16Is980A == FrameOfClaim => SubSeq(api.out, 7, 8) = <<10, 152>>

\* C26: the CRC-16 of the frame over the bytes 01 06 00 01 00 03 is 0x0B98,
\* appended low byte first as 0x98, 0x0B.
C26_Crc16Is0B98 == FrameOfClaim => SubSeq(api.out, 7, 8) = <<152, 11>>

C26_Witness == FrameOfClaim /\ Len(api.out) = 8

(***************************************************************************)
(* The checksum of the slots                                               *)
(***************************************************************************)
\* C27: the crc32 that seals and validates slots (calculate_crc32 with the
\* table of init_crc32_table) equals the standard zlib-compatible reflected
\* CRC-32: the single byte 0x00 yields 0xD202EF8D and the empty input yields
\* 0x00000000.
C27_Crc32IsZlib ==
    crc32_table_filled
    => /\ calculate_crc32(crc32_table, Run(0, 1), 1) = <<53762, 61325>>
       /\ calculate_crc32(crc32_table, <<>>, 0) = <<0, 0>>

\* what the code computes for the single byte 0x00: 0xFA60FB57
Crc32OfZeroByte ==
    crc32_table_filled
    => calculate_crc32(crc32_table, Run(0, 1), 1) = <<64096, 64343>>

\* the empty input yields 0x00000000
Crc32OfEmpty ==
    crc32_table_filled => calculate_crc32(crc32_table, <<>>, 0) = <<0, 0>>

(***************************************************************************)
(* The keys of the envelope                                                *)
(***************************************************************************)
Occurrences(keys, key) == Cardinality({i \in 1..Len(keys) : keys[i] = key})

\* each of the mandatory keys exactly once
MandatoryOnce(keys) ==
    /\ Occurrences(keys, KEY_MODEL) = 1
    /\ Occurrences(keys, KEY_PREP) = 1
    /\ Occurrences(keys, KEY_ACT) = 1

\* a step that completed a load or a hot-swap, directly or through the facade
LoadCalled ==
    api'.op \in {"agent_loader_load", "agent_loader_hotswap",
                 "edgeplug_load_agent", "edgeplug_hotswap_agent"}

EdgeplugExecuteActuation(commands) ==
    /\ actuator.actuation_count < MaxActuations
    /\ actuator.software_timer < MaxActuatorTimerReads
    /\ \E arg \in commands :
          \E r \in {edgeplug_execute_actuation(App, arg, SoftwareClocks)} :
             /\ StoreApp(r.st)
             /\ api' = Api("edgeplug_execute_actuation", arg, r.ret, <<>>)
    /\ UNCHANGED <<build, verify_ctx, hist>>
    /\ UNCHANGED hotswap_vars

EdgeplugGetStats ==
    /\ \E r \in {edgeplug_get_stats(App)} :
          api' = Api("edgeplug_get_stats", <<>>, r.ret, r.out)
    /\ UNCHANGED <<agent_loader, preprocess, infer, runtime_state, build, verify_ctx, actuator,
                   hist>>
    /\ UNCHANGED hotswap_vars

EdgeplugResetStats ==
    /\ \E r \in {edgeplug_reset_stats(App)} :
          /\ StoreApp(r.st)
          /\ api' = Api("edgeplug_reset_stats", <<>>, r.ret, <<>>)
    /\ UNCHANGED <<build, verify_ctx, hist>>
    /\ UNCHANGED hotswap_vars

EdgeplugIsInitialized ==
    /\ api' = Api("edgeplug_is_initialized", <<>>,
                  edgeplug_is_initialized(runtime_state), <<>>)
    /\ UNCHANGED <<agent_loader, preprocess, infer, runtime_state, build, verify_ctx, actuator,
                   hist>>
    /\ UNCHANGED hotswap_vars

\* a configuration that is accepted, one whose window preprocess_init
\* refuses, and none
FacadeConfigs ==
    {ConfigArg(Config(2, TRUE)), ConfigArg(Config(MAX_WINDOW_SIZE + 1, TRUE)),
     ConfigArg(Config(0, TRUE)),
     ConfigArg([Config(2, TRUE) EXCEPT !.sample_rate = 0]),
     NullConfigArg}

FacadeRequests ==
    {MatchingRequest(EnvelopeA), [MatchingRequest(EnvelopeA) EXCEPT !.size = 0]}

FacadeCommands ==
    {CommandArg(Command(1001, 1, 1, 1, <<3, 1>>)),
     [null |-> TRUE, cmd |-> ZeroCommand]}

\* the number of samples fed to the facade
MaxFacadeSamples == 2

NextFacade ==
    \/ EdgeplugInit(FacadeConfigs)
    \/ EdgeplugLoadAgent(FacadeRequests)
    \/ EdgeplugHotswapAgent(FacadeRequests)
    \/ EdgeplugProcessSensors(SteadySamples, MaxFacadeSamples)
    \/ EdgeplugExecuteActuation(FacadeCommands)
    \/ EdgeplugGetStats
    \/ EdgeplugResetStats
    \/ EdgeplugIsInitialized
    \/ EdgeplugDeinit

SpecFacade == InitApp /\ [][NextFacade]_vars

\* the operations of the facade other than edgeplug_init that return a status
GuardedOperations ==
    {"edgeplug_load_agent", "edgeplug_process_sensors",
     "edgeplug_execute_actuation", "edgeplug_hotswap_agent",
     "edgeplug_get_stats", "edgeplug_reset_stats", "edgeplug_deinit"}

\* a step that is a call refused for want of an initialization: it returns
\* EDGEPLUG_ERROR_INVALID_PARAM and changes no runtime, preprocessor,
\* inference, actuator or loader state
Refused ==
    /\ api'.ret = EDGEPLUG_ERROR_INVALID_PARAM
    /\ UNCHANGED <<runtime_state, preprocess, infer, actuator, agent_loader>>

\* C30: in every state in which the runtime is not initialized (before the
\* first successful edgeplug_init and after edgeplug_deinit) each operation of
\* the facade other than edgeplug_init returns EDGEPLUG_ERROR_INVALID_PARAM
\* and changes no runtime, preprocessor, inference, actuator or loader state;
\* after edgeplug_deinit, edgeplug_is_initialized() is false.
C30_UninitializedRefuses ==
    [][/\ (~hist.up /\ api'.op \in GuardedOperations) => Refused
       /\ (api'.op = "edgeplug_deinit" /\ api'.ret = EDGEPLUG_OK)
          => ~edgeplug_is_initialized(runtime_state')]_vars

\* the same for the states in which runtime_state.initialized is false
ClearedFlagRefuses ==
    [][/\ (~edgeplug_is_initialized(runtime_state)
           /\ api'.op \in GuardedOperations) => Refused
       /\ (api'.op = "edgeplug_deinit" /\ api'.ret = EDGEPLUG_OK)
          => ~edgeplug_is_initialized(runtime_state')]_vars

\* edgeplug_init has failed and left runtime_state.initialized set
InitializedWithoutInit == ~hist.up /\ edgeplug_is_initialized(runtime_state)

(***************************************************************************)
(* The two hot-swaps: hotswap_update_agent run statement by statement with *)
(* nothing running beside it, and agent_loader_hotswap                     *)
(***************************************************************************)
SwapRequests == {MatchingRequest(EnvelopeA), MockRequest}

NextSwap ==
    \/ HotswapInit
    \/ UpdateEnter
    \/ UpdateWriteData
    \/ UpdateWriteMeta
    \/ UpdateFinish
    \/ HotswapRollback
    \/ HotswapClearSlot
    \/ PowerCycle
    \/ AgentLoaderHotswap(SwapRequests)

SpecSwap == Init /\ [][NextSwap]_vars

\* a step of hotswap_update_agent: its entry, one of its statements or its
\* return
UpdateStep == frame.pc # "idle" \/ frame'.pc # "idle" \/ UpdateReturns

\* the region of the loader that is active: agent_slot_a or agent_slot_b
LoaderActiveRegion(ld, a_active) ==
    IF a_active THEN ld.agent_slot_a ELSE ld.agent_slot_b

LoaderHotswapNeverSucceeds ==
    api.op = "agent_loader_hotswap" => api.ret # EDGEPLUG_OK

(***************************************************************************)
(* The validity of the active slot                                         *)
(***************************************************************************)
\* validate_agent_slot of the active slot, before and after a step
ActiveValid ==
    validate_agent_slot(crc32_table, flash, hotswap_state.active_slot)

ActiveValidAfter ==
    validate_agent_slot(crc32_table', flash', hotswap_state'.active_slot)

\* a step that starts where the engine is initialized and its active slot
\* validates, and that is a call of one of the operations named
AfterInit(ops) == crc32_table_filled /\ ActiveValid /\ call'.op \in ops

\* C32: after a successful init, in every state reachable by any sequence of
\* update (stage), rollback, watchdog and clear_slot calls the active slot is
\* valid: its magic matches, its size is in range and its stored CRC-32
\* equals the CRC-32 recomputed over the payload.  Stated step by step: a
\* successful init ends with a valid active slot, and each of the four
\* operations started with a valid active slot ends with one.
C32_ActiveSlotStaysValid ==
    [][/\ (call'.op = "init" /\ call'.ret = EDGEPLUG_OK) => ActiveValidAfter
       /\ AfterInit({"update", "rollback", "watchdog", "clear"})
             => ActiveValidAfter]_vars

\* the same without clear_slot
ActiveValidUnlessCleared ==
    [][/\ (call'.op = "init" /\ call'.ret = EDGEPLUG_OK) => ActiveValidAfter
       /\ AfterInit({"update", "rollback", "watchdog"})
             => ActiveValidAfter]_vars

\* init has succeeded and the active slot has then been erased
ActiveSlotCleared ==
    /\ call.op = "clear"
    /\ call.ret = EDGEPLUG_OK
    /\ crc32_table_filled
    /\ flash[hotswap_state.active_slot] = ErasedSlot

(***************************************************************************)
(* Stage, rollback, rollback                                               *)
(***************************************************************************)
\* the second rollback r2 after the update u of the request req: it succeeds
\* and what is active is what the update staged
SecondRollback(req, u, r2) ==
    /\ r2.ret = EDGEPLUG_OK
    /\ ActiveView(r2.m) = ActiveView(u.m)
    /\ ActiveView(r2.m).size = U32(req.size)
    /\ ActiveView(r2.m).bytes = req.data

\* the first rollback r1 after the update u made in the state m: it succeeds
\* and what is active is what was active in m
FirstRollback(m, req, u, r1) ==
    /\ r1.ret = EDGEPLUG_OK
    /\ ActiveView(r1.m) = ActiveView(m)
    /\ SecondRollback(req, u, hotswap_rollback(crc32_table, r1.m))

StagedRollback(m, req, u) ==
    u.ret = EDGEPLUG_OK
        => FirstRollback(m, req, u, hotswap_rollback(crc32_table, u.m))

StageThenRollback(m, req) ==
    StagedRollback(m, req, hotswap_update_agent(crc32_table, m, req))

\* C33: in every state of an initialized engine whose active slot is valid
\* and holds an image P, a successful update (stage) with an image Q followed
\* immediately by hotswap_rollback succeeds and makes
\* hotswap_get_active_agent return exactly P again, same bytes and size; a
\* second rollback then makes it return Q.
C33_RollbackRestoresThenReturns ==
    (crc32_table_filled /\ frame.pc = "idle" /\ ActiveValid)
        => \A req \in Requests : StageThenRollback(Machine, req)

\* the state after the three calls: the first image valid in slot A, the
\* second staged once into slot B and active after an even number of
\* successful rollbacks
C33_Witness ==
    /\ call.op = "rollback"
    /\ call.ret = EDGEPLUG_OK
    /\ hotswap_state.successful_updates = 1
    /\ hotswap_state.active_slot = 1
    /\ flash[0] = StoredSlot(ImageV1, GoodManifest(1, ImageV1), 1)
    /\ ActiveView(Machine).bytes = ImageV2

(***************************************************************************)
(* The in-progress flag between calls                                      *)
(***************************************************************************)
\* a call of hotswap_update_agent with both pointers set has returned
UpdateWithArguments ==
    UpdateReturns /\ ~call'.req.data_null /\ ~call'.req.manifest_null

\* C34: with every call running to its return before the next one starts,
\* update_in_progress is false in every state between calls: every return
\* path of hotswap_update_agent that set the flag also clears it.  So a
\* second update is never rejected as already in progress (it passes the
\* check and is counted as an attempt), and hotswap_watchdog_check never
\* rolls back or changes a counter.
C34_FlagClearBetweenCalls ==
    [][/\ hotswap_state.update_in_progress = 0
       /\ hotswap_state'.update_in_progress = 0
       /\ UpdateWithArguments =>
             hotswap_state'.update_attempts
                 = hotswap_state.update_attempts + 1
       /\ call'.op = "watchdog" =>
             UNCHANGED <<flash, hotswap_state, time_counter>>]_vars

\* the watchdog has been called after a second update, the first of which
\* at least had failed
C34_Witness ==
    /\ call.op = "watchdog"
    /\ hotswap_state.update_attempts = 2
    /\ hotswap_state.failed_updates >= 1
    /\ hotswap_state.update_in_progress = 0

(***************************************************************************)
(* The lifecycle counters                                                  *)
(***************************************************************************)
\* attempts = successes + failures; the counters of the model stay far below
\* 2^32, where the sum modulo 2^32 is the sum
Balanced(hs) ==
    hs.update_attempts = hs.successful_updates + hs.failed_updates

\* exactly one of the two outcome counters has gone up by one
OneOutcomeCounted(before, after) ==
    \/ /\ after.successful_updates = before.successful_updates + 1
       /\ after.failed_updates = before.failed_updates
    \/ /\ after.successful_updates = before.successful_updates
       /\ after.failed_updates = before.failed_updates + 1

\* C35: after any sequence of init, update (stage), rollback and watchdog
\* calls the counters satisfy attempts = successes + failures in every state
\* between calls, and each update call that passes the argument and
\* in-progress checks increments attempts by exactly one and exactly one of
\* successes and failures by one.
C35_CountersBalance ==
    [][/\ Balanced(hotswap_state)
       /\ Balanced(hotswap_state')
       /\ (UpdateWithArguments /\ hotswap_state.update_in_progress = 0) =>
             /\ hotswap_state'.update_attempts
                    = hotswap_state.update_attempts + 1
             /\ OneOutcomeCounted(hotswap_state, hotswap_state')]_vars

\* an update has been counted as an attempt and as a success after an
\* earlier sequence of calls
C35_Witness ==
    /\ call.op = "update"
    /\ call.ret = EDGEPLUG_OK
    /\ hotswap_state.update_attempts = 1
    /\ hotswap_state.successful_updates = 1
    /\ hotswap_state.failed_updates = 0
    /\ crc32_table_filled

(***************************************************************************)
(* A failed edgeplug_init                                                  *)
(***************************************************************************)
InitFailed(a) == a.op = "edgeplug_init" /\ a.ret # EDGEPLUG_OK

\* C36: if edgeplug_init returns an error (null config, window_size 0,
\* sample_rate 0, or the failure of a sub-module init as with window_size
\* 257) and the runtime was not initialized before, it is not initialized
\* afterwards: edgeplug_is_initialized() is false, and the call of another
\* facade operation that follows returns EDGEPLUG_ERROR_INVALID_PARAM.
C36_FailedInitLeavesUninitialized ==
    [][/\ (InitFailed(api') /\ ~edgeplug_is_initialized(runtime_state))
             => ~edgeplug_is_initialized(runtime_state')
       /\ (InitFailed(api) /\ ~hist.up /\ api'.op \in GuardedOperations)
             => api'.ret = EDGEPLUG_ERROR_INVALID_PARAM]_vars

\* the same for the failures found before the configuration is copied
EarlyFailedInitLeavesUninitialized ==
    [][/\ (InitFailed(api') /\ ~edgeplug_is_initialized(runtime_state)
             /\ api'.arg # ConfigArg(Config(MAX_WINDOW_SIZE + 1, TRUE)))
             => ~edgeplug_is_initialized(runtime_state')
       /\ (InitFailed(api) /\ ~edgeplug_is_initialized(runtime_state)
             /\ api'.op \in GuardedOperations)
             => api'.ret = EDGEPLUG_ERROR_INVALID_PARAM]_vars

(***************************************************************************)
(* The accesses of the layer walk                                          *)
(*                                                                         *)
(* The walk of cmsis_nn_inference is followed descriptor by descriptor,    *)
(* and each access it makes is compared with the region it is made in:     *)
(* the model_size bytes stored by infer_load_model, the inference buffer   *)
(* and the caller's output buffer.                                         *)
(***************************************************************************)
\* the elements of the output buffer edgeplug_process_sensors passes
OutputCapacity == 256

\* the reads of weights and bias of a dense layer (lines 231-239)
DenseReadsInModel(layer, model_size) ==
    /\ layer.input_size * layer.output_size > 0 =>
          layer.weights_offset + layer.input_size * layer.output_size
              <= model_size
    /\ layer.output_size > 0 =>
          layer.bias_offset + 4 * layer.output_size <= model_size

\* the reads of layer_input and the writes of layer_output of a layer that
\* reads n_in and writes n_out elements
ScratchInBuffer(in_at, out_at, n_in, n_out) ==
    /\ in_at + n_in <= INFERENCE_BUFFER_SIZE
    /\ out_at + n_out <= INFERENCE_BUFFER_SIZE

RECURSIVE WalkInBounds(_, _, _, _, _, _)
\* layer i, whose descriptor has been read: its input is what the layer
\* before it put out, and its accesses are in bounds; an unsupported type
\* ends the walk
LayerInBounds(inf, header, i, in_at, out_at, size_in, layer) ==
    IF layer.type = CMSIS_NN_LAYER_DENSE
    THEN /\ layer.input_size = size_in
         /\ ScratchInBuffer(in_at, out_at, layer.input_size, layer.output_size)
         /\ DenseReadsInModel(layer, inf.model_size)
         /\ WalkInBounds(inf, header, i + 1, out_at, in_at, layer.output_size)
    ELSE IF layer.type = CMSIS_NN_LAYER_ACTIVATION
    THEN /\ layer.input_size = size_in
         /\ ScratchInBuffer(in_at, out_at, layer.input_size, layer.input_size)
         /\ WalkInBounds(inf, header, i + 1, out_at, in_at, layer.output_size)
    ELSE TRUE

\* the walk from layer i on, and the copy of the output after the last layer
WalkInBounds(inf, header, i, in_at, out_at, size_in) ==
    IF i >= header.layer_count
    THEN /\ header.output_size <= OutputCapacity
         /\ in_at + header.output_size <= INFERENCE_BUFFER_SIZE
    ELSE /\ SIZEOF_MODEL_HEADER + SIZEOF_LAYER * (i + 1) <= inf.model_size
         /\ LayerInBounds(inf, header, i, in_at, out_at, size_in,
                          ModelLayer(inf.model_buffer, i))

\* the call of infer_int8 with the argument arg gets as far as the walk: a
\* model has been accepted by infer_load_model and the input is accepted by
\* infer_int8 and by the checks of cmsis_nn_inference
WalkStarts(inf, arg, header) ==
    /\ ~arg.input_null /\ ~arg.output_null /\ ~arg.output_size_null
    /\ inf.model_loaded
    /\ arg.input_size <= INFERENCE_BUFFER_SIZE
    /\ header.magic = CMSIS_NN_MAGIC
    /\ arg.input_size = header.input_size

InferenceInBounds(inf, arg, header) ==
    WalkStarts(inf, arg, header)
        => WalkInBounds(inf, header, 0, 0, header.input_size, header.input_size)

\* C37: for every model accepted by infer_load_model and every input
\* accepted by infer_int8, all accesses made while walking the layers stay in
\* bounds: the scratch reads and writes stay within the 1024-byte inference
\* buffer, the weight and bias reads stay within the stored model bytes, each
\* layer's input_size equals the previous layer's output_size (the first the
\* header's input_size), and at most the caller's output capacity (256
\* elements) is written.
C37_LayerWalkInBounds ==
    [][api'.op = "infer_int8" =>
          InferenceInBounds(infer, api'.arg.arg, ModelHeader(infer.model_buffer))
      ]_vars

\* the walks over the two well-formed models are in bounds
WellFormedWalkInBounds ==
    [][(api'.op = "infer_int8" /\ api.op = "infer_load_model"
            /\ api.arg \in {DenseModel, ReluModel}) =>
          InferenceInBounds(infer, api'.arg.arg, ModelHeader(infer.model_buffer))
      ]_vars

\* an inference has run to its end over the model whose weights start at the
\* last byte of the image
WalkedBeyondModel ==
    /\ api.op = "infer_int8"
    /\ api.ret = EDGEPLUG_OK
    /\ infer.model_size = WeightsBeyondModel.size
    /\ RTake(infer.model_buffer, infer.model_size) = WeightsBeyondModel.data

(***************************************************************************)
(* The secure-boot patch (bootloader_patch.c)                              *)
(***************************************************************************)
BOOT_OK == 0
BOOT_ERROR_MANIFEST_INVALID == -1
BOOT_ERROR_SIGNATURE_INVALID == -2
BOOT_ERROR_AGENT_INVALID == -3
BOOT_ERROR_MEMORY_INVALID == -4
BOOT_ERROR_SAFETY_INVALID == -5

\* the enumeration constant of manifest.h, a header that is not part of the
\* sources; the patch only compares a manifest's level with it
SAFETY_LEVEL_SIL_3 == 3

\* every word of the one-time-programmable memory reads 0xFFFFFFFF
read_otp(address) == ERASED_WORD

\* bit k (a power of two below 16) of a 32-bit word
BitSet(w, k) == (w[2] \div k) % 2 = 1

get_boot_config ==
    [secure_boot_enabled |-> BitSet(read_otp("OTP_BOOT_CONFIG_ADDR"), 1),
     manifest_verification_enabled |->
         BitSet(read_otp("OTP_BOOT_CONFIG_ADDR"), 2),
     agent_verification_enabled |->
         BitSet(read_otp("OTP_BOOT_CONFIG_ADDR"), 4),
     safety_verification_enabled |->
         BitSet(read_otp("OTP_BOOT_CONFIG_ADDR"), 8)]

\* the four bytes of a word, least significant first
WordBytes(w) == <<w[2] % 256, w[2] \div 256, w[1] % 256, w[1] \div 256>>

RECURSIVE KeyWords(_)
KeyWords(i) ==
    IF i = 8 THEN <<>>
    ELSE RCat(Bytes(WordBytes(read_otp(i))), KeyWords(i + 1))

\* the 32 bytes load_public_key writes; it returns true for a buffer
load_public_key == KeyWords(0)

verify_ed25519_signature(message, signature, public_key) == TRUE

calculate_sha512(data) == Memset(0, 64)

\* a manifest argument: a null pointer, or the manifest pointed to
ManifestArg(m) == [null |-> FALSE, manifest |-> m]

NullManifestArg == [null |-> TRUE, manifest |-> ZeroBootManifest]

BootResult(ctx, ret) == [st |-> ctx, ret |-> ret]

signature_checked(ctx, arg) ==
    IF ~verify_ed25519_signature(ctx.hash, arg.manifest.signature,
                                 ctx.public_key)
    THEN BootResult(ctx, BOOT_ERROR_SIGNATURE_INVALID)
    ELSE BootResult([ctx EXCEPT !.verified = TRUE], BOOT_OK)

verify_manifest_signature(ctx, arg) ==
    IF arg.null THEN BootResult(ctx, BOOT_ERROR_MANIFEST_INVALID)
    ELSE signature_checked(
             [ctx EXCEPT !.public_key = load_public_key,
                         !.hash = calculate_sha512(arg.manifest)], arg)

\* an agent argument: whether the pointer is null, and the size passed
AgentArg(null, size) == [null |-> null, size |-> size]

verify_agent_integrity(ctx, agent) ==
    IF agent.null \/ agent.size = 0 THEN BOOT_ERROR_AGENT_INVALID
    ELSE IF calculate_sha512(agent) # ctx.manifest.agent_hash
    THEN BOOT_ERROR_AGENT_INVALID
    ELSE BOOT_OK

verify_memory_requirements(arg) ==
    IF arg.null THEN BOOT_ERROR_MANIFEST_INVALID
    ELSE IF arg.manifest.flash_bytes > 32768 THEN BOOT_ERROR_MEMORY_INVALID
    ELSE IF arg.manifest.sram_bytes > 4096 THEN BOOT_ERROR_MEMORY_INVALID
    ELSE BOOT_OK

verify_safety_requirements(arg) ==
    IF arg.null THEN BOOT_ERROR_MANIFEST_INVALID
    ELSE IF arg.manifest.safety_level > SAFETY_LEVEL_SIL_3
    THEN BOOT_ERROR_SAFETY_INVALID
    ELSE IF arg.manifest.invariant_count = 0 THEN BOOT_ERROR_SAFETY_INVALID
    ELSE BOOT_OK

bootloader_init_secure_boot(ctx) ==
    IF ~get_boot_config.secure_boot_enabled THEN BootResult(ctx, BOOT_OK)
    ELSE BootResult(BootStatics, BOOT_OK)

\* bootloader_verify_manifest once the signature step has returned r
manifest_checked(r, arg) ==
    IF r.ret # BOOT_OK THEN r
    ELSE IF verify_memory_requirements(arg) # BOOT_OK
    THEN BootResult(r.st, verify_memory_requirements(arg))
    ELSE IF verify_safety_requirements(arg) # BOOT_OK
    THEN BootResult(r.st, verify_safety_requirements(arg))
    ELSE BootResult(r.st, BOOT_OK)

bootloader_verify_manifest(ctx, arg) ==
    IF arg.null THEN BootResult(ctx, BOOT_ERROR_MANIFEST_INVALID)
    ELSE IF ~get_boot_config.manifest_verification_enabled
    THEN BootResult(ctx, BOOT_OK)
    ELSE manifest_checked(
             verify_manifest_signature(
                 [ctx EXCEPT !.manifest = arg.manifest], arg), arg)

bootloader_verify_agent(ctx, agent) ==
    IF agent.null \/ agent.size = 0 THEN BOOT_ERROR_AGENT_INVALID
    ELSE IF ~get_boot_config.agent_verification_enabled THEN BOOT_OK
    ELSE IF ~ctx.verified THEN BOOT_ERROR_MANIFEST_INVALID
    ELSE verify_agent_integrity(ctx, agent)

\* bootloader_load_agent once bootloader_verify_manifest has returned r
agent_loaded(r, agent) ==
    IF r.ret # BOOT_OK THEN r
    ELSE BootResult(r.st, bootloader_verify_agent(r.st, agent))

bootloader_load_agent(ctx, agent, arg) ==
    IF agent.null \/ arg.null THEN BootResult(ctx, BOOT_ERROR_AGENT_INVALID)
    ELSE agent_loaded(bootloader_verify_manifest(ctx, arg), agent)

bootloader_is_verified(ctx) == ctx.verified

\* a manifest within every limit, whose agent hash is the all-zero hash the
\* patch computes for every agent
GoodBootManifest ==
    [signature |-> Run(1, 64), agent_hash |-> Run(0, 64),
     flash_bytes |-> 32768, sram_bytes |-> 4096,
     safety_level |-> SAFETY_LEVEL_SIL_3, invariant_count |-> 1]

\* manifests each refused by one check, and one with another agent hash
BootManifests ==
    {ManifestArg(GoodBootManifest),
     ManifestArg([GoodBootManifest EXCEPT !.flash_bytes = 32769]),
     ManifestArg([GoodBootManifest EXCEPT !.sram_bytes = 4097]),
     ManifestArg([GoodBootManifest EXCEPT
                     !.safety_level = SAFETY_LEVEL_SIL_3 + 1]),
     ManifestArg([GoodBootManifest EXCEPT !.invariant_count = 0]),
     ManifestArg([GoodBootManifest EXCEPT !.agent_hash = Run(7, 64)]),
     NullManifestArg}

BootAgents == {AgentArg(FALSE, 16), AgentArg(FALSE, 0), AgentArg(TRUE, 16)}

BootUnchanged ==
    /\ UNCHANGED <<agent_loader, preprocess, infer, runtime_state, build,
                   actuator, hist>>
    /\ UNCHANGED hotswap_vars

BootloaderInitSecureBoot ==
    /\ \E r \in {bootloader_init_secure_boot(verify_ctx)} :
          /\ verify_ctx' = r.st
          /\ api' = Api("bootloader_init_secure_boot", <<>>, r.ret, <<>>)
    /\ BootUnchanged

BootloaderVerifyManifest ==
    /\ \E arg \in BootManifests :
          \E r \in {bootloader_verify_manifest(verify_ctx, arg)} :
             /\ verify_ctx' = r.st
             /\ api' = Api("bootloader_verify_manifest", arg, r.ret, <<>>)
    /\ BootUnchanged

BootloaderVerifyAgent ==
    /\ \E agent \in BootAgents :
          api' = Api("bootloader_verify_agent", agent,
                     bootloader_verify_agent(verify_ctx, agent), <<>>)
    /\ UNCHANGED verify_ctx
    /\ BootUnchanged

BootloaderLoadAgent ==
    /\ \E agent \in BootAgents, arg \in BootManifests :
          \E r \in {bootloader_load_agent(verify_ctx, agent, arg)} :
             /\ verify_ctx' = r.st
             /\ api' = Api("bootloader_load_agent", <<agent, arg>>, r.ret,
                           <<>>)
    /\ BootUnchanged

BootloaderIsVerified ==
    /\ api' = Api("bootloader_is_verified", <<>>,
                  bootloader_is_verified(verify_ctx), <<>>)
    /\ UNCHANGED verify_ctx
    /\ BootUnchanged

NextBoot ==
    \/ BootloaderInitSecureBoot
    \/ BootloaderVerifyManifest
    \/ BootloaderVerifyAgent
    \/ BootloaderLoadAgent
    \/ BootloaderIsVerified

SpecBoot == InitApp /\ [][NextBoot]_vars

\* the stored manifest passes the memory and the safety check
StoredManifestPasses(ctx) ==
    /\ verify_memory_requirements(ManifestArg(ctx.manifest)) = BOOT_OK
    /\ verify_safety_requirements(ManifestArg(ctx.manifest)) = BOOT_OK

\* an agent the integrity check can be run on
PresentAgent(agent) == ~agent.null /\ agent.size # 0

\* C38: bootloader_verify_agent returns BOOT_OK only if the stored manifest
\* passed every check of bootloader_verify_manifest; after a
\* bootloader_verify_manifest call that returns an error,
\* bootloader_is_verified() is false and bootloader_verify_agent of a present
\* agent returns BOOT_ERROR_MANIFEST_INVALID
C38_AgentVerifiedOnlyAfterManifestPassed ==
    [][/\ (api'.op = "bootloader_verify_agent" /\ api'.ret = BOOT_OK)
             => StoredManifestPasses(verify_ctx)
       /\ (api'.op = "bootloader_verify_manifest" /\ api'.ret # BOOT_OK)
             => ~bootloader_is_verified(verify_ctx')
       /\ (/\ api.op = "bootloader_verify_manifest"
           /\ api.ret # BOOT_OK
           /\ api'.op = "bootloader_verify_agent"
           /\ PresentAgent(api'.arg))
             => api'.ret = BOOT_ERROR_MANIFEST_INVALID]_vars

\* what the patch does guarantee: bootloader_verify_agent returns BOOT_OK
\* only after some manifest has passed the signature step since the context
\* was last cleared, and only for an agent hash equal to the stored one
AgentVerifiedOnlyAfterSignature ==
    [][(api'.op = "bootloader_verify_agent" /\ api'.ret = BOOT_OK)
          => /\ bootloader_is_verified(verify_ctx)
             /\ verify_ctx.manifest.agent_hash = calculate_sha512(api'.arg)
             /\ PresentAgent(api'.arg)]_vars

\* a manifest refused for its flash size, and an agent then verified
RefusedManifestAgentVerified ==
    /\ api.op = "bootloader_verify_agent"
    /\ api.ret = BOOT_OK
    /\ verify_ctx.manifest.flash_bytes = 32769

(***************************************************************************)
(* Envelopes that end early                                                *)
(***************************************************************************)
\* The walk of the parse loop of agent_loader_load, with what the loop does
\* not look at: whether each skip stays inside the data, and whether the loop
\* ends after as many entries as the map declared.
RECURSIVE entries_within(_, _, _, _)
value_within(val, i, declared) ==
    /\ val.ok
    /\ val.parser.offset + val.value <= val.parser.size
    /\ entries_within([val.parser EXCEPT !.offset = @ + val.value],
                      i + 1, val.value, declared)

key_within(key, i, declared) ==
    /\ key.ok
    /\ key.major_type = 3
    /\ key.parser.offset + key.value <= key.parser.size
    /\ value_within(
           cbor_parse_header([key.parser EXCEPT !.offset = @ + key.value]),
           i, declared)

entries_within(parser, i, value, declared) ==
    IF ~(i < value) THEN i = declared
    ELSE key_within(cbor_parse_header(parser), i, declared)

map_within(map) ==
    /\ map.ok
    /\ map.major_type = 5
    /\ entries_within(map.parser, 0, map.value, map.value)

\* every declared length lies within the bytes presented and every declared
\* entry is parsed
ParseWithin(req) ==
    map_within(cbor_parse_header([data |-> req.data, size |-> req.size,
                                  offset |-> 0]))

EntriesParsed(map) == parse_entries(map.parser, 0, map.value, FALSE)

LoopResult(req) ==
    EntriesParsed(cbor_parse_header([data |-> req.data, size |-> req.size,
                                     offset |-> 0]))

\* the parse loop by itself runs to its end on a value cut short and on a
\* map with entries missing, and stops at a key or a value that declares
\* more bytes than follow only where another header is read after the skip
LoopOnTruncated ==
    /\ LoopResult(MatchingRequest(ShortValue)).ok
    /\ LoopResult(MatchingRequest(MissingEntries)).ok
    /\ ~LoopResult(MatchingRequest(LongValue)).ok
    /\ ~LoopResult(MatchingRequest(LongKey)).ok

====
